---------------------------- MODULE Spec2Model ----------------------------
(***************************************************************************)
(* Brent change-point analysis: the change-point model objects of          *)
(* src/modeling/model_runner.py, the ModelRunner that fits and compares    *)
(* them, and the dashboard backend (src/dashboard/backend) that serves     *)
(* the results.                                                            *)
(*                                                                         *)
(* Specifications:                                                         *)
(*   Spec     one BrentChangePointModel object: build_model, fit (one      *)
(*            posterior draw of the PyMC3 graph), get_changepoints.        *)
(*   SpecCmp  a ModelRunner and the backend globals that hold its fits:    *)
(*            run_basic_model, run_event_model, compare_models, POST /run, *)
(*            GET /status (both backends), GET /diagnostics.  A fit is     *)
(*            kept as its WAIC object, the part these operations read.     *)
(*   SpecCoef the event-coefficient listing of both backends.  A fit is    *)
(*            kept as the interval bounds of event_coefficients.           *)
(*   SpecRun  POST /run requests served by threads that share the one      *)
(*            ModelRunner, one statement of run_basic_model and            *)
(*            run_event_model at a time.                                   *)
(*   SpecPrep ModelRunner.prepare_data on the table read from the CSV.     *)
(*   SpecPost the summaries of a posterior (mean, interval) and the        *)
(*            change-point extraction of the model object, both backends   *)
(*            and the visualizer.                                          *)
(*   SpecSeg  the segment listing of both backends and the visualizer,     *)
(*            and the time index and date of each listed change point.     *)
(*   SpecLik  the linear predictor of the event model for one draw.        *)
(*   SpecStore save_results and the loaders that read the results back.    *)
(*   SpecConv the convergence block of GET /status and GET /diagnostics.   *)
(*   SpecSrv  one backend process from start-up on: POST /run, one call of *)
(*            the runner at a time, and the query endpoints between runs.  *)
(*            A fit is kept as the run request that sampled its trace.     *)
(***************************************************************************)
EXTENDS Integers, Sequences, FiniteSets, TLC

(***************************************************************************)
(* Bounds of the model.                                                    *)
(***************************************************************************)
\* Largest series length len(y) handed to build_model.
MaxN == 3
\* Largest n_changepoints a model object is constructed with.
MaxM == 2
\* changepoint_probs are drawn on the grid 0/ProbDen, 1/ProbDen, ..., 1.
ProbDen == 2
\* WAIC values are drawn from 1..MaxWaic, their standard errors from 1..MaxSE.
MaxWaic == 2
MaxSE == 1
\* Number of event covariates (columns of X_events) of the event model.
NumEvents == 2
\* Number of POST /run requests the server handles.
NumRequests == 2
\* Largest number of rows of the processed data table.
MaxRows == 2
\* Number of pooled (chain, draw) samples of a posterior.
NumSamples == 17
\* Posterior means of change points are drawn on the grid of 1/MeanDen.
MeanDen == 4
\* Number of POST /run requests one backend process serves.
MaxRuns == 2

VARIABLES
    \* ---- one BrentChangePointModel object (model_runner.py:17-196) ----
    cls,            \* the subclass of the object
    n_changepoints, \* self.n_changepoints
    model,          \* self.model: NoModel or the built structure
    trace,          \* self.trace: NoTrace or the posterior draw
    trace_current,  \* history: self.trace was sampled from the structure
                    \* that self.model holds now
    last,           \* the last call on the object and how it ended
    \* ---- a ModelRunner and the backend module globals ----
    backend,        \* which backend module serves: app.py or routes/model_routes.py
    results,        \* ModelRunner.results of the backend's runner
    loaded,         \* the mapping unpickled from model_results.pkl at start-up
    model_results_ref, \* what the global model_results refers to:
                    \* "None", "loaded" (the unpickled mapping) or "runner"
                    \* (the very dict object that is runner.results)
    event_model_obj, \* runner.event_model is not None
    resp,           \* the last call or request and its answer
    served_event_hdi, \* the interval bounds of event_coefficients in the trace
                    \* at model_results['event_model'], NoEventFit without one
    \* ---- POST /run requests in flight ----
    pc,             \* the statement each request is at
    basic_model_ref, \* runner.basic_model: 0 (None) or the request that made
                    \* the BasicChangePointModel it refers to
    event_model_ref, \* runner.event_model, likewise
    target,         \* the model instance whose build_model or fit a request
                    \* is executing
    built,          \* the model instances whose self.model is set
    results_from,   \* per key of runner.results, the request whose fit the
                    \* entry holds (0: no entry)
    \* ---- ModelRunner.prepare_data ----
    data,           \* self.data: the rows of the table, each with its target
                    \* and its event columns
    prep,           \* the last prepare_data call and what it returned
    \* ---- posterior summaries and change-point extraction ----
    samples,        \* the pooled samples of one entry of changepoints_sorted:
                    \* the number of samples at each time index
    data_len,       \* len(data) of the table dates are looked up in
    ext,            \* the last extraction and its answer
    \* ---- segment reconstruction ----
    cp_means,       \* changepoints_mean: the posterior means of the entries
                    \* of changepoints_sorted of the served event fit
    seg,            \* the last segment listing and its answer
    \* ---- the linear predictor of the event model ----
    lik_in,         \* one draw: n, changepoints_sorted, X_events and
                    \* event_coefficients
    lik,            \* the likelihood nodes evaluated for the draw
    \* ---- persistence of the results mapping ----
    st_results,     \* runner.results of the process that saves
    pkl_file,       \* the file data/processed/model_results.pkl
    json_file,      \* the file data/processed/model_results.json
    saved,          \* history: the mapping the last save_results wrote
    has_saved,      \* history: save_results has been called
    readback,       \* the last call and the mapping a loader returned
    \* ---- convergence reporting ----
    conv_served,    \* the global model_results: None, or the keys it has
    conv_rhat,      \* az.rhat of the event trace, per parameter
    conv_ess,       \* az.ess of the event trace, per parameter
    conv_resp,      \* the last request and its answer
    \* ---- one backend process ----
    srv_backend,    \* the backend module: app.py or routes/model_routes.py
    srv_data,       \* the global data is the table (not None)
    srv_runner,     \* the global runner instance is a ModelRunner (not None)
    srv_results,    \* runner.results
    srv_loaded,     \* the mapping unpickled at start-up
    srv_ref,        \* what the global model_results refers to: "None",
                    \* "loaded" or "runner" (the dict that is runner.results)
    srv_basic_model, \* runner.basic_model
    srv_event_model, \* runner.event_model
    srv_pc,         \* the statement the POST /run handler is at, or "idle"
    srv_run,        \* the number of the POST /run request being served, or
                    \* of the last one
    srv_ok_run,     \* history: the last request that was answered success
    srv_resp        \* the last request and its answer

objVars == <<cls, n_changepoints, model, trace, trace_current, last>>
cmpVars == <<backend, results, loaded, model_results_ref, event_model_obj, resp>>

coefVars == <<served_event_hdi>>

runVars == <<pc, basic_model_ref, event_model_ref, target, built, results_from>>

prepVars == <<data, prep>>

\* The variables of the parts that follow the runner and the backend.
postVars == <<samples, data_len, ext>>

segVars == <<cp_means, seg>>

likVars == <<lik_in, lik>>

storeVars == <<st_results, pkl_file, json_file, saved, has_saved, readback>>

convVars == <<conv_served, conv_rhat, conv_ess, conv_resp>>

srvVars == <<srv_backend, srv_data, srv_runner, srv_results, srv_loaded,
             srv_ref, srv_basic_model, srv_event_model, srv_pc, srv_run,
             srv_ok_run, srv_resp>>

extVars ==
    <<prepVars, postVars, segVars, likVars, storeVars, convVars, srvVars>>

vars == <<objVars, cmpVars, coefVars, runVars, extVars>>

\* What the actions of one part leave alone.
notObjVars == <<cmpVars, coefVars, runVars, extVars>>
notCmpVars == <<objVars, coefVars, runVars, extVars>>
baseVars == <<objVars, cmpVars, coefVars, runVars>>
notPrepVars ==
    <<baseVars, postVars, segVars, likVars, storeVars, convVars, srvVars>>
notPostVars ==
    <<baseVars, prepVars, segVars, likVars, storeVars, convVars, srvVars>>
notSegVars ==
    <<baseVars, postVars, likVars, storeVars, convVars, srvVars>>
notLikVars ==
    <<baseVars, prepVars, postVars, segVars, storeVars, convVars, srvVars>>
notConvVars ==
    <<baseVars, prepVars, postVars, segVars, likVars, storeVars, srvVars>>
notSrvVars ==
    <<baseVars, prepVars, postVars, segVars, likVars, storeVars, convVars>>
notStoreVars ==
    <<baseVars, prepVars, postVars, segVars, likVars, convVars, srvVars>>

(***************************************************************************)
(* Values.                                                                 *)
(***************************************************************************)
\* self.model = None.  A built structure is [n |-> len(y)] with n >= 1.
NoModel == [n |-> 0]
\* self.trace = None.
NoTrace == [n |-> 0, changepoint_probs |-> <<>>, changepoints |-> <<>>,
            changepoints_sorted |-> <<>>, segment_idx |-> <<>>]

Classes == {"BasicChangePointModel", "EventCovariateModel"}

\* All sequences of length len over the set S.
SeqsOf(S, len) == [1..len -> S]

(***************************************************************************)
(* The deterministic nodes of the PyMC3 graph.                             *)
(***************************************************************************)
\* float -> int conversion of astype(int): truncation toward zero of num/den.
AsTypeInt(num, den) ==
    IF num >= 0 THEN num \div den ELSE -((-num) \div den)

\* (changepoint_probs * (n-1)).astype(int) with the probability k/ProbDen.
DiscretizeOffByOne(k, n) == AsTypeInt(k * n, ProbDen)
Discretize(k, n) == AsTypeInt(k * (n - 1), ProbDen)

\* pm.math.sort: ascending order.
RECURSIVE InsertSorted(_, _)
InsertSorted(x, s) ==
    IF s = <<>> THEN <<x>>
    ELSE IF x <= Head(s) THEN <<x>> \o s
    ELSE <<Head(s)>> \o InsertSorted(x, Tail(s))

RECURSIVE SortAscending(_)
SortAscending(s) ==
    IF s = <<>> THEN <<>> ELSE InsertSorted(Head(s), SortAscending(Tail(s)))

\* searchsorted(a, v) with the default side='left': the index i with
\* a[i-1] < v <= a[i], that is the number of leading elements below v.
RECURSIVE SearchSortedFrom(_, _, _)
SearchSortedFrom(a, v, i) ==
    IF i < Len(a) /\ a[i + 1] < v THEN SearchSortedFrom(a, v, i + 1) ELSE i

SearchSortedOneBased(a, v) == SearchSortedFrom(a, v, 0) + 1
SearchSorted(a, v) == SearchSortedFrom(a, v, 0)

\* One evaluation of the graph that BasicChangePointModel.build_model
\* declares, for the drawn changepoint_probs (numerators over ProbDen).
BasicGraph(n, probs) ==
    LET changepoints == [i \in 1..Len(probs) |-> Discretize(probs[i], n)]
        changepoints_sorted == SortAscending(changepoints)
    IN [n |-> n,
        changepoint_probs |-> probs,
        changepoints |-> changepoints,
        changepoints_sorted |-> changepoints_sorted,
        segment_idx |-> [t \in 1..n |-> SearchSorted(changepoints_sorted, t - 1)]]

\* The same nodes as EventCovariateModel.build_model declares them.
EventGraph(n, probs) ==
    LET changepoints == [i \in 1..Len(probs) |-> Discretize(probs[i], n)]
        changepoints_sorted == SortAscending(changepoints)
    IN [n |-> n,
        changepoint_probs |-> probs,
        changepoints |-> changepoints,
        changepoints_sorted |-> changepoints_sorted,
        segment_idx |-> [t \in 1..n |-> SearchSorted(changepoints_sorted, t - 1)]]

Graph(c, n, probs) ==
    IF c = "BasicChangePointModel" THEN BasicGraph(n, probs)
    ELSE EventGraph(n, probs)

(***************************************************************************)
(* BrentChangePointModel.                                                  *)
(***************************************************************************)
\* __init__: model and trace start as None.
ObjInit ==
    /\ cls \in Classes
    /\ n_changepoints \in 0..MaxM
    /\ model = NoModel
    /\ trace = NoTrace
    /\ trace_current = FALSE
    /\ last = [op |-> "__init__", outcome |-> "ok", sampled |-> FALSE]

\* build_model(y) with len(y) = n: a new structure replaces self.model;
\* self.trace is not touched.
BuildModel ==
    \E n \in 1..MaxN :
        /\ model' = [n |-> n]
        /\ trace_current' = FALSE
        /\ last' = [op |-> "build_model", outcome |-> "ok", sampled |-> FALSE]
        /\ UNCHANGED <<cls, n_changepoints, trace>>
        /\ UNCHANGED notObjVars

\* fit's guard: `if self.model is None: raise ValueError`.
FitRaisesNever(mdl) == FALSE
FitRaises(mdl) == mdl = NoModel

\* fit before build_model: ValueError, pm.sample is not reached.
FitUnbuilt ==
    /\ FitRaises(model)
    /\ last' = [op |-> "fit", outcome |-> "ValueError", sampled |-> FALSE]
    /\ UNCHANGED <<cls, n_changepoints, model, trace, trace_current>>
    /\ UNCHANGED notObjVars

\* fit: pm.sample returns a draw of the graph, stored in self.trace.
FitSampled ==
    /\ ~FitRaises(model)
    /\ \E probs \in SeqsOf(0..ProbDen, n_changepoints) :
           trace' = Graph(cls, model.n, probs)
    /\ trace_current' = TRUE
    /\ last' = [op |-> "fit", outcome |-> "ok", sampled |-> TRUE]
    /\ UNCHANGED <<cls, n_changepoints, model>>
    /\ UNCHANGED notObjVars

\* fit: pm.sample itself raises; the assignment to self.trace is not reached.
FitSamplerError ==
    /\ ~FitRaises(model)
    /\ last' = [op |-> "fit", outcome |-> "SamplingError", sampled |-> TRUE]
    /\ UNCHANGED <<cls, n_changepoints, model, trace, trace_current>>
    /\ UNCHANGED notObjVars

\* get_changepoints: ValueError when self.trace is None, else the summary of
\* trace.posterior['changepoints_sorted'].
GetChangepoints ==
    /\ last' = [op |-> "get_changepoints",
                outcome |-> IF trace = NoTrace THEN "ValueError" ELSE "ok",
                sampled |-> FALSE]
    /\ UNCHANGED <<cls, n_changepoints, model, trace, trace_current>>
    /\ UNCHANGED notObjVars

\* The runner and the backend are not part of this specification.
CmpPinned ==
    /\ backend = "none"
    /\ results = <<>>
    /\ loaded = <<>>
    /\ model_results_ref = "None"
    /\ event_model_obj = FALSE
    /\ resp = [op |-> "none", kind |-> "none"]

\* model_results holds no event fit.
NoEventFit == <<>>

\* The coefficient listing is not part of this specification.
CoefPinned == served_event_hdi = NoEventFit

\* No model instance: the value of target outside build_model and fit.
NoInst == [kind |-> "none", owner |-> 0]

\* No request is part of this specification.
RunPinned ==
    /\ pc = <<>>
    /\ basic_model_ref = 0
    /\ event_model_ref = 0
    /\ target = <<>>
    /\ built = {}
    /\ results_from = [k \in {"basic_model", "event_model"} |-> 0]

\* prepare_data has not been called and the table is empty.
NoPrep == [op |-> "none"]
PrepPinned ==
    /\ data = <<>>
    /\ prep = NoPrep

\* The parts that follow the runner and the backend are not part of this
\* specification: no posterior.
PostPinned ==
    /\ samples = <<>>
    /\ data_len = 0
    /\ ext = [op |-> "none"]

\* No segment listing is part of this specification.
SegPinned ==
    /\ cp_means = <<>>
    /\ seg = [op |-> "none"]

\* No draw of the event model is part of this specification.
LikPinned ==
    /\ lik_in = <<>>
    /\ lik = [op |-> "none"]

\* No file is part of this specification.
StorePinned ==
    /\ st_results = <<>>
    /\ pkl_file = <<>>
    /\ json_file = <<>>
    /\ saved = <<>>
    /\ has_saved = FALSE
    /\ readback = [op |-> "none"]

\* No convergence statistics are part of this specification.
ConvPinned ==
    /\ conv_served = [is_none |-> TRUE, keys |-> {}]
    /\ conv_rhat = <<>>
    /\ conv_ess = <<>>
    /\ conv_resp = [op |-> "none"]

\* No model object of a backend process: runner.basic_model is None.
NoObject == [owner |-> 0, built |-> FALSE, fitted |-> FALSE]

\* No answer yet.
NoAnswer == [op |-> "none", kind |-> "none", guard |-> FALSE, trace |-> 0,
             models_fitted |-> FALSE]

\* The backend process is not part of this specification.
SrvPinned ==
    /\ srv_backend = "none"
    /\ srv_data = FALSE
    /\ srv_runner = FALSE
    /\ srv_results = <<>>
    /\ srv_loaded = <<>>
    /\ srv_ref = "None"
    /\ srv_basic_model = NoObject
    /\ srv_event_model = NoObject
    /\ srv_pc = "idle"
    /\ srv_run = 0
    /\ srv_ok_run = 0
    /\ srv_resp = NoAnswer

ExtPinned ==
    /\ PrepPinned /\ PostPinned /\ SegPinned /\ LikPinned /\ StorePinned
    /\ ConvPinned /\ SrvPinned

Init == ObjInit /\ CmpPinned /\ CoefPinned /\ RunPinned /\ ExtPinned

Next ==
    \/ BuildModel
    \/ FitUnbuilt
    \/ FitSampled
    \/ FitSamplerError
    \/ GetChangepoints

Spec == Init /\ [][Next]_vars

(***************************************************************************)
(* ModelRunner: the results mapping and compare_models.                    *)
(***************************************************************************)
ModelKeys == {"basic_model", "event_model"}

\* What az.waic returns, as far as it is read: .waic and .waic_se.
WaicObjects == [waic : 1..MaxWaic, waic_se : 1..MaxSE]

\* Every value of a results mapping: keys among ModelKeys, each entry made
\* of a trace and its WAIC object (kept here as the WAIC object).
AllResults == UNION {[K -> WaicObjects] : K \in SUBSET ModelKeys}

\* d[k] = v, the other keys kept: self.results[k] = {...}.
SetItemDropsOthers(d, k, v) == [x \in {k} |-> v]
SetItem(d, k, v) ==
    [x \in (DOMAIN d) \cup {k} |-> IF x = k THEN v ELSE d[x]]

\* The object the global model_results refers to.
ModelResults == IF model_results_ref = "runner" THEN results ELSE loaded

\* compare_models' precondition check.
CompareModelsRaises(res) ==
    "basic_model" \notin DOMAIN res \/ "event_model" \notin DOMAIN res

\* The comparison dictionary of compare_models.
ComparisonAgainstItself(basic_waic, event_waic) ==
    [basic_waic |-> basic_waic.waic,
     basic_waic_se |-> basic_waic.waic_se,
     event_waic |-> event_waic.waic,
     event_waic_se |-> event_waic.waic_se,
     waic_difference |-> basic_waic.waic - event_waic.waic,
     preferred_model |-> IF event_waic.waic < event_waic.waic
                         THEN "event_model" ELSE "basic_model"]
ComparisonTiesToEvent(basic_waic, event_waic) ==
    [basic_waic |-> basic_waic.waic,
     basic_waic_se |-> basic_waic.waic_se,
     event_waic |-> event_waic.waic,
     event_waic_se |-> event_waic.waic_se,
     waic_difference |-> basic_waic.waic - event_waic.waic,
     preferred_model |-> IF event_waic.waic <= basic_waic.waic
                         THEN "event_model" ELSE "basic_model"]
Comparison(basic_waic, event_waic) ==
    [basic_waic |-> basic_waic.waic,
     basic_waic_se |-> basic_waic.waic_se,
     event_waic |-> event_waic.waic,
     event_waic_se |-> event_waic.waic_se,
     waic_difference |-> basic_waic.waic - event_waic.waic,
     preferred_model |-> IF event_waic.waic < basic_waic.waic
                         THEN "event_model" ELSE "basic_model"]

\* compare_models on a results mapping that passed the check.
CompareModelsOn(res) == Comparison(res["basic_model"], res["event_model"])

\* run_basic_model, build and fit succeeding: the entry is stored.
RunBasicModel ==
    /\ backend # "none"
    /\ \E w \in WaicObjects : results' = SetItem(results, "basic_model", w)
    /\ resp' = [op |-> "run_basic_model", kind |-> "ok"]
    /\ UNCHANGED <<backend, loaded, model_results_ref, event_model_obj>>
    /\ UNCHANGED notCmpVars

\* run_event_model, build and fit succeeding.
RunEventModel ==
    /\ backend # "none"
    /\ \E w \in WaicObjects : results' = SetItem(results, "event_model", w)
    /\ event_model_obj' = TRUE
    /\ resp' = [op |-> "run_event_model", kind |-> "ok"]
    /\ UNCHANGED <<backend, loaded, model_results_ref>>
    /\ UNCHANGED notCmpVars

\* run_event_model raising in build_model or fit: self.event_model was
\* already replaced, no entry is stored.
RunEventModelRaises ==
    /\ backend # "none"
    /\ event_model_obj' = TRUE
    /\ resp' = [op |-> "run_event_model", kind |-> "Exception"]
    /\ UNCHANGED <<backend, results, loaded, model_results_ref>>
    /\ UNCHANGED notCmpVars

\* compare_models.
CompareModels ==
    /\ backend # "none"
    /\ resp' = IF CompareModelsRaises(results)
               THEN [op |-> "compare_models", kind |-> "ValueError"]
               ELSE [op |-> "compare_models", kind |-> "ok",
                     comparison |-> CompareModelsOn(results)]
    /\ UNCHANGED <<backend, results, loaded, model_results_ref, event_model_obj>>
    /\ UNCHANGED notCmpVars

(***************************************************************************)
(* The backend: POST /run, GET /status, GET /diagnostics.                  *)
(***************************************************************************)
Backends == {"app", "routes"}

\* load_data / load_model_data at start-up: model_results is the unpickled
\* file when it exists, a fresh ModelRunner is made.
CmpInit ==
    /\ backend \in Backends
    /\ results = <<>>
    /\ \/ model_results_ref = "None" /\ loaded = <<>>
       \/ model_results_ref = "loaded" /\ loaded \in AllResults
    /\ event_model_obj = FALSE
    /\ resp = [op |-> "load", kind |-> "ok"]

\* POST /run, both fits succeeding: run_basic_model, run_event_model,
\* (routes only) model_results = runner.results, compare_models,
\* save_results, the success answer.
RunModel ==
    /\ backend \in Backends
    /\ \E wb, we \in WaicObjects :
           /\ results' = SetItem(SetItem(results, "basic_model", wb),
                                 "event_model", we)
           /\ resp' = [op |-> "run", kind |-> "ok",
                       comparison |-> Comparison(wb, we)]
    /\ event_model_obj' = TRUE
    /\ model_results_ref' =
           IF backend = "routes" THEN "runner" ELSE model_results_ref
    /\ UNCHANGED <<backend, loaded>>
    /\ UNCHANGED notCmpVars

\* POST /run with run_event_model raising after run_basic_model stored its
\* entry: the handler answers the error; model_results is not assigned.
RunModelEventFails ==
    /\ backend \in Backends
    /\ \E wb \in WaicObjects : results' = SetItem(results, "basic_model", wb)
    /\ event_model_obj' = TRUE
    /\ resp' = [op |-> "run", kind |-> "error"]
    /\ UNCHANGED <<backend, loaded, model_results_ref>>
    /\ UNCHANGED notCmpVars

\* The waic_comparison of GET /status in routes/model_routes.py.
RoutesWaicComparison(mr) ==
    [basic_waic |-> mr["basic_model"].waic,
     event_waic |-> mr["event_model"].waic,
     preferred_model |->
         IF mr["event_model"].waic < mr["basic_model"].waic
         THEN "event_model" ELSE "basic_model"]

\* The waic_comparison of GET /api/model/status in app.py.
AppWaicComparison(mr) ==
    [basic_waic |-> mr["basic_model"].waic,
     event_waic |-> mr["event_model"].waic,
     preferred_model |->
         IF mr["event_model"].waic < mr["basic_model"].waic
         THEN "event_model" ELSE "basic_model"]

\* az.rhat and az.ess return an xarray Dataset, which has no attribute
\* 'empty' (that is pandas): reading it raises AttributeError.
DatasetHasEmpty == FALSE

\* GET /status of either backend.  With both fits routes/model_routes.py
\* goes on to its convergence block, which starts by reading
\* az.rhat(event_trace).empty.
GetModelStatus ==
    /\ backend \in Backends
    /\ resp' =
         IF model_results_ref = "None"
         THEN [op |-> "status", kind |-> "ok", models_fitted |-> FALSE]
         ELSE IF /\ "basic_model" \in DOMAIN ModelResults
                 /\ "event_model" \in DOMAIN ModelResults
                 /\ backend = "routes"
                 /\ ~DatasetHasEmpty
         THEN [op |-> "status", kind |-> "AttributeError"]
         ELSE IF "basic_model" \in DOMAIN ModelResults
                 /\ "event_model" \in DOMAIN ModelResults
         THEN [op |-> "status", kind |-> "ok", models_fitted |-> TRUE,
               basic_model_fitted |-> TRUE, event_model_fitted |-> TRUE,
               waic_comparison |->
                   IF backend = "routes"
                   THEN RoutesWaicComparison(ModelResults)
                   ELSE AppWaicComparison(ModelResults)]
         ELSE [op |-> "status", kind |-> "ok", models_fitted |-> TRUE,
               basic_model_fitted |-> "basic_model" \in DOMAIN ModelResults,
               event_model_fitted |-> "event_model" \in DOMAIN ModelResults]
    /\ UNCHANGED <<backend, results, loaded, model_results_ref, event_model_obj>>
    /\ UNCHANGED notCmpVars

\* ModelRunner.__init__ sets data, basic_model, event_model and results: a
\* runner has no attribute event_cols.
RunnerHasEventCols == FALSE

\* The model_comparison block of GET /diagnostics; waic_obj is the WAIC that
\* generate_summary_report recomputes from the event trace.
ModelComparisonBlock(mr, waic_obj) ==
    [basic_model_waic |->
         IF "basic_model" \in DOMAIN mr THEN mr["basic_model"].waic ELSE "N/A",
     event_model_waic |-> waic_obj.waic,
     waic_difference |->
         IF "basic_model" \in DOMAIN mr
         THEN mr["basic_model"].waic - waic_obj.waic ELSE "N/A",
     preferred_model |->
         IF "basic_model" \in DOMAIN mr
         THEN (IF waic_obj.waic < mr["basic_model"].waic
               THEN "event_model" ELSE "basic_model")
         ELSE "event_model"]

\* GET /diagnostics (routes/model_routes.py only).
GetModelDiagnostics ==
    /\ backend = "routes"
    /\ resp' =
         IF model_results_ref = "None" \/ "event_model" \notin DOMAIN ModelResults
         THEN [op |-> "diagnostics", kind |-> "error"]
         ELSE IF ~event_model_obj
         THEN [op |-> "diagnostics", kind |-> "AttributeError"]
         ELSE IF ~RunnerHasEventCols
         THEN [op |-> "diagnostics", kind |-> "AttributeError"]
         ELSE [op |-> "diagnostics", kind |-> "ok",
               model_comparison |->
                   ModelComparisonBlock(ModelResults,
                                        ModelResults["event_model"])]
    /\ UNCHANGED <<backend, results, loaded, model_results_ref, event_model_obj>>
    /\ UNCHANGED notCmpVars

\* The model object is not part of this specification.
ObjPinned ==
    /\ cls = "BasicChangePointModel"
    /\ n_changepoints = 0
    /\ model = NoModel
    /\ trace = NoTrace
    /\ trace_current = FALSE
    /\ last = [op |-> "none", outcome |-> "none", sampled |-> FALSE]

InitCmp == CmpInit /\ ObjPinned /\ CoefPinned /\ RunPinned /\ ExtPinned

NextCmp ==
    \/ RunBasicModel
    \/ RunEventModel
    \/ RunEventModelRaises
    \/ CompareModels
    \/ RunModel
    \/ RunModelEventFails
    \/ GetModelStatus
    \/ GetModelDiagnostics

SpecCmp == InitCmp /\ [][NextCmp]_vars

(***************************************************************************)
(* The event-coefficient listing (specification SpecCoef).                 *)
(***************************************************************************)
\* The values an interval bound takes: one of each sign, which is all the
\* 'significant' expressions look at.
HdiValues == {0 - 1, 0, 1}

\* The lower and upper bounds of one coefficient's interval.
Intervals ==
    {iv \in [lower : HdiValues, upper : HdiValues] : iv.lower <= iv.upper}

\* The 'significant' flag of routes/model_routes.py.
RoutesSignificant(hdi_lower, hdi_upper) == hdi_lower > 0 \/ hdi_upper < 0

\* The 'significant' flag of app.py.
AppSignificantNonStrict(hdi_lower, hdi_upper) == hdi_lower >= 0 \/ hdi_upper <= 0
AppSignificant(hdi_lower, hdi_upper) == hdi_lower > 0 \/ hdi_upper < 0

\* Start-up: model_results is None, or the unpickled mapping with or
\* without an event fit.
CoefInit ==
    /\ backend \in Backends
    /\ \/ model_results_ref = "None" /\ served_event_hdi = NoEventFit
       \/ model_results_ref = "loaded" /\ served_event_hdi = NoEventFit
       \/ model_results_ref = "loaded"
            /\ served_event_hdi \in SeqsOf(Intervals, NumEvents)
    /\ resp = [op |-> "load", kind |-> "ok"]
    /\ results = <<>>
    /\ loaded = <<>>
    /\ event_model_obj = FALSE

\* POST /run with both fits succeeding: routes/model_routes.py points
\* model_results at runner.results, app.py leaves model_results alone.
CoefRunModel ==
    /\ backend \in Backends
    /\ IF backend = "routes"
       THEN \E hdi \in SeqsOf(Intervals, NumEvents) : served_event_hdi' = hdi
       ELSE served_event_hdi' = served_event_hdi
    /\ model_results_ref' =
           IF backend = "routes" THEN "runner" ELSE model_results_ref
    /\ event_model_obj' = TRUE
    /\ resp' = [op |-> "run", kind |-> "ok"]
    /\ UNCHANGED <<backend, results, loaded>>
    /\ UNCHANGED <<objVars, runVars, extVars>>

\* GET /api/model/event-coefficients of app.py.
AppGetEventCoefficients ==
    /\ backend = "app"
    /\ resp' =
         IF model_results_ref = "None" \/ served_event_hdi = NoEventFit
         THEN [op |-> "event_coefficients", kind |-> "error"]
         ELSE [op |-> "event_coefficients", kind |-> "ok",
               coefficients |->
                   [i \in 1..NumEvents |->
                       [hdi_lower |-> served_event_hdi[i].lower,
                        hdi_upper |-> served_event_hdi[i].upper,
                        significant |->
                            AppSignificant(served_event_hdi[i].lower,
                                           served_event_hdi[i].upper)]]]
    /\ UNCHANGED <<backend, results, loaded, model_results_ref, event_model_obj>>
    /\ UNCHANGED <<objVars, coefVars, runVars, extVars>>

\* GET /api/model/event-coefficients of routes/model_routes.py: the names
\* are read from model_runner_instance.event_cols before the listing is built.
RoutesGetEventCoefficients ==
    /\ backend = "routes"
    /\ resp' =
         IF model_results_ref = "None" \/ served_event_hdi = NoEventFit
         THEN [op |-> "event_coefficients", kind |-> "error"]
         ELSE IF ~RunnerHasEventCols
         THEN [op |-> "event_coefficients", kind |-> "AttributeError"]
         ELSE [op |-> "event_coefficients", kind |-> "ok",
               coefficients |->
                   [i \in 1..NumEvents |->
                       [hdi_lower |-> served_event_hdi[i].lower,
                        hdi_upper |-> served_event_hdi[i].upper,
                        significant |->
                            RoutesSignificant(served_event_hdi[i].lower,
                                              served_event_hdi[i].upper)]]]
    /\ UNCHANGED <<backend, results, loaded, model_results_ref, event_model_obj>>
    /\ UNCHANGED <<objVars, coefVars, runVars, extVars>>

InitCoef == CoefInit /\ ObjPinned /\ RunPinned /\ ExtPinned

NextCoef ==
    \/ CoefRunModel
    \/ AppGetEventCoefficients
    \/ RoutesGetEventCoefficients

SpecCoef == InitCoef /\ [][NextCoef]_vars

(***************************************************************************)
(* Concurrent POST /run requests (specification SpecRun).                  *)
(***************************************************************************)
Requests == 1..NumRequests

\* The model instance of class kind that request owner constructed.
Inst(kind, owner) == [kind |-> kind, owner |-> owner]

RunInit ==
    /\ backend \in Backends
    /\ pc = [r \in Requests |-> "idle"]
    /\ basic_model_ref = 0
    /\ event_model_ref = 0
    /\ target = [r \in Requests |-> NoInst]
    /\ built = {}
    /\ results_from = [k \in ModelKeys |-> 0]
    /\ model_results_ref = "None"
    /\ results = <<>>
    /\ loaded = <<>>
    /\ event_model_obj = FALSE
    /\ resp = [op |-> "load", kind |-> "ok"]

runFrame == <<backend, results, loaded, event_model_obj, resp>>

\* The handler starts: run_model calls run_basic_model.
Receive(r) ==
    /\ pc[r] = "idle"
    /\ pc' = [pc EXCEPT ![r] = "b_new"]
    /\ UNCHANGED <<basic_model_ref, event_model_ref, target, built,
                   results_from, model_results_ref>>
    /\ UNCHANGED <<runFrame, objVars, coefVars, extVars>>

\* self.basic_model = BasicChangePointModel(self.data, n_changepoints)
NewBasicModel(r) ==
    /\ pc[r] = "b_new"
    /\ basic_model_ref' = r
    /\ pc' = [pc EXCEPT ![r] = "b_build"]
    /\ UNCHANGED <<event_model_ref, target, built, results_from,
                   model_results_ref>>
    /\ UNCHANGED <<runFrame, objVars, coefVars, extVars>>

\* self.basic_model.build_model(y) is entered: the attribute is read now.
BuildBasicBegin(r) ==
    /\ pc[r] = "b_build"
    /\ target' = [target EXCEPT ![r] = Inst("basic", basic_model_ref)]
    /\ pc' = [pc EXCEPT ![r] = "b_building"]
    /\ UNCHANGED <<basic_model_ref, event_model_ref, built, results_from,
                   model_results_ref>>
    /\ UNCHANGED <<runFrame, objVars, coefVars, extVars>>

\* build_model returns: self.model = model on the instance it ran on.
BuildBasicEnd(r) ==
    /\ pc[r] = "b_building"
    /\ built' = built \cup {target[r]}
    /\ target' = [target EXCEPT ![r] = NoInst]
    /\ pc' = [pc EXCEPT ![r] = "b_fit"]
    /\ UNCHANGED <<basic_model_ref, event_model_ref, results_from,
                   model_results_ref>>
    /\ UNCHANGED <<runFrame, objVars, coefVars, extVars>>

\* self.basic_model.fit(...) is entered: the attribute is read again; an
\* instance without a model raises ValueError, which the handler answers.
FitBasicBegin(r) ==
    /\ pc[r] = "b_fit"
    /\ IF Inst("basic", basic_model_ref) \in built
       THEN /\ target' = [target EXCEPT ![r] = Inst("basic", basic_model_ref)]
            /\ pc' = [pc EXCEPT ![r] = "b_fitting"]
       ELSE /\ target' = target
            /\ pc' = [pc EXCEPT ![r] = "failed"]
    /\ UNCHANGED <<basic_model_ref, event_model_ref, built, results_from,
                   model_results_ref>>
    /\ UNCHANGED <<runFrame, objVars, coefVars, extVars>>

\* pm.sample returns: self.trace is set on the instance and fit returns it.
FitBasicEnd(r) ==
    /\ pc[r] = "b_fitting"
    /\ target' = [target EXCEPT ![r] = NoInst]
    /\ pc' = [pc EXCEPT ![r] = "b_store"]
    /\ UNCHANGED <<basic_model_ref, event_model_ref, built, results_from,
                   model_results_ref>>
    /\ UNCHANGED <<runFrame, objVars, coefVars, extVars>>

\* self.results['basic_model'] = {'trace': trace, 'waic': ...}; then
\* run_model calls run_event_model.
StoreBasic(r) ==
    /\ pc[r] = "b_store"
    /\ results_from' = [results_from EXCEPT !["basic_model"] = r]
    /\ pc' = [pc EXCEPT ![r] = "e_new"]
    /\ UNCHANGED <<basic_model_ref, event_model_ref, target, built,
                   model_results_ref>>
    /\ UNCHANGED <<runFrame, objVars, coefVars, extVars>>

\* self.event_model = EventCovariateModel(self.data, n_changepoints)
NewEventModel(r) ==
    /\ pc[r] = "e_new"
    /\ event_model_ref' = r
    /\ pc' = [pc EXCEPT ![r] = "e_build"]
    /\ UNCHANGED <<basic_model_ref, target, built, results_from,
                   model_results_ref>>
    /\ UNCHANGED <<runFrame, objVars, coefVars, extVars>>

\* self.event_model.build_model(y, X_events) is entered.
BuildEventBegin(r) ==
    /\ pc[r] = "e_build"
    /\ target' = [target EXCEPT ![r] = Inst("event", event_model_ref)]
    /\ pc' = [pc EXCEPT ![r] = "e_building"]
    /\ UNCHANGED <<basic_model_ref, event_model_ref, built, results_from,
                   model_results_ref>>
    /\ UNCHANGED <<runFrame, objVars, coefVars, extVars>>

\* build_model returns.
BuildEventEnd(r) ==
    /\ pc[r] = "e_building"
    /\ built' = built \cup {target[r]}
    /\ target' = [target EXCEPT ![r] = NoInst]
    /\ pc' = [pc EXCEPT ![r] = "e_fit"]
    /\ UNCHANGED <<basic_model_ref, event_model_ref, results_from,
                   model_results_ref>>
    /\ UNCHANGED <<runFrame, objVars, coefVars, extVars>>

\* self.event_model.fit(...) is entered.
FitEventBegin(r) ==
    /\ pc[r] = "e_fit"
    /\ IF Inst("event", event_model_ref) \in built
       THEN /\ target' = [target EXCEPT ![r] = Inst("event", event_model_ref)]
            /\ pc' = [pc EXCEPT ![r] = "e_fitting"]
       ELSE /\ target' = target
            /\ pc' = [pc EXCEPT ![r] = "failed"]
    /\ UNCHANGED <<basic_model_ref, event_model_ref, built, results_from,
                   model_results_ref>>
    /\ UNCHANGED <<runFrame, objVars, coefVars, extVars>>

\* pm.sample returns.
FitEventEnd(r) ==
    /\ pc[r] = "e_fitting"
    /\ target' = [target EXCEPT ![r] = NoInst]
    /\ pc' = [pc EXCEPT ![r] = "e_store"]
    /\ UNCHANGED <<basic_model_ref, event_model_ref, built, results_from,
                   model_results_ref>>
    /\ UNCHANGED <<runFrame, objVars, coefVars, extVars>>

\* pm.sample raises in either fit: the handler answers the error.
SamplerRaises(r) ==
    /\ pc[r] \in {"b_fitting", "e_fitting"}
    /\ target' = [target EXCEPT ![r] = NoInst]
    /\ pc' = [pc EXCEPT ![r] = "failed"]
    /\ UNCHANGED <<basic_model_ref, event_model_ref, built, results_from,
                   model_results_ref>>
    /\ UNCHANGED <<runFrame, objVars, coefVars, extVars>>

\* self.results['event_model'] = {...}; run_event_model returns.
StoreEvent(r) ==
    /\ pc[r] = "e_store"
    /\ results_from' = [results_from EXCEPT !["event_model"] = r]
    /\ pc' = [pc EXCEPT ![r] = "finish"]
    /\ UNCHANGED <<basic_model_ref, event_model_ref, target, built,
                   model_results_ref>>
    /\ UNCHANGED <<runFrame, objVars, coefVars, extVars>>

\* The rest of run_model: (routes only) model_results = runner.results,
\* compare_models, save_results, the success answer.
FinishRun(r) ==
    /\ pc[r] = "finish"
    /\ model_results_ref' =
           IF backend = "routes" THEN "runner" ELSE model_results_ref
    /\ pc' = [pc EXCEPT ![r] = "done"]
    /\ UNCHANGED <<basic_model_ref, event_model_ref, target, built,
                   results_from>>
    /\ UNCHANGED <<runFrame, objVars, coefVars, extVars>>

InitRun == RunInit /\ ObjPinned /\ CoefPinned /\ ExtPinned

NextRun ==
    \E r \in Requests :
        \/ Receive(r)
        \/ NewBasicModel(r)
        \/ BuildBasicBegin(r)
        \/ BuildBasicEnd(r)
        \/ FitBasicBegin(r)
        \/ FitBasicEnd(r)
        \/ StoreBasic(r)
        \/ NewEventModel(r)
        \/ BuildEventBegin(r)
        \/ BuildEventEnd(r)
        \/ FitEventBegin(r)
        \/ FitEventEnd(r)
        \/ SamplerRaises(r)
        \/ StoreEvent(r)
        \/ FinishRun(r)

SpecRun == InitRun /\ [][NextRun]_vars

(***************************************************************************)
(* ModelRunner.prepare_data (specification SpecPrep).                      *)
(***************************************************************************)
\* A cell of the table: a number or NaN.
NaN == [nan |-> TRUE, v |-> 0]
Num(v) == [nan |-> FALSE, v |-> v]

\* A standardized cell: NaN, or the number d * sqrt(n / q), which is
\* (x - mean) / std of a column of n numbers with d = n*x - sum and
\* q = the sum of the squares of all d of the column.
NaNStd == [nan |-> TRUE, d |-> 0, q |-> 0, n |-> 0]
Std(d, q, n) == [nan |-> FALSE, d |-> d, q |-> q, n |-> n]

\* The values a cell of an event column is drawn from.
EventCells == {NaN, Num(0), Num(1)}

\* The table of len rows with the given event cells; the target of row i
\* is missing where the mask says so and the i-th return otherwise.
TableOf(len, missing, ev) ==
    [i \in 1..len |->
        [target |-> IF missing[i] THEN NaN ELSE Num(i), events |-> ev[i]]]

\* The tables of len rows.
Tables(len) ==
    {TableOf(len, missing, ev) :
        missing \in [1..len -> BOOLEAN],
        ev \in [1..len -> SeqsOf(EventCells, NumEvents)]}

RECURSIVE SumOver(_, _)
\* The sum of f[i] over i = 1..len.
SumOver(f, len) == IF len = 0 THEN 0 ELSE f[len] + SumOver(f, len - 1)

\* numpy's float division x / 0.0 warns and yields nan or inf.
DivideRaisesOnZero(q) == q = 0
DivideRaises(q) == FALSE

\* Column j of the event columns of table tbl.
EventColumn(tbl, j) == [i \in 1..Len(tbl) |-> tbl[i].events[j]]

\* n*x - sum for the cells of a column without NaN.
Deviations(col) ==
    LET n == Len(col)
        s == SumOver([i \in 1..n |-> col[i].v], n)
    IN [i \in 1..n |-> n * col[i].v - s]

\* The sum of the squared deviations of a column without NaN.
SquaredDeviations(col) ==
    LET d == Deviations(col)
    IN SumOver([i \in 1..Len(col) |-> d[i] * d[i]], Len(col))

\* (col - col.mean()) / col.std(): a NaN cell makes mean and std NaN and
\* with them the whole column; a column of equal numbers is 0/0 = NaN.
StandardizeColumn(col) ==
    IF \E i \in 1..Len(col) : col[i].nan
    THEN [i \in 1..Len(col) |-> NaNStd]
    ELSE LET d == Deviations(col)
             q == SquaredDeviations(col)
         IN [i \in 1..Len(col) |->
                IF q = 0 THEN NaNStd ELSE Std(d[i], q, Len(col))]

\* X_events = (X_events - X_events.mean(axis=0)) / X_events.std(axis=0)
Standardize(tbl) ==
    [i \in 1..Len(tbl) |->
        [j \in 1..NumEvents |-> StandardizeColumn(EventColumn(tbl, j))[i]]]

\* The division of the standardization raises for some column.
StandardizeRaises(tbl) ==
    \E j \in 1..NumEvents :
        LET col == EventColumn(tbl, j)
        IN /\ \A i \in 1..Len(col) : ~col[i].nan
           /\ DivideRaises(SquaredDeviations(col))

\* One entry of valid_idx = ~(isnan(y) | isnan(X_events).any(axis=1)).
KeepRowIgnoresTarget(y_i, x_row) == ~(\E j \in 1..NumEvents : x_row[j].nan)
KeepRow(y_i, x_row) == ~(y_i.nan \/ \E j \in 1..NumEvents : x_row[j].nan)

RECURSIVE SelectMask(_, _)
\* a[mask]: the entries of a at the positions where mask is TRUE, in order.
SelectMask(a, mask) ==
    IF Len(a) = 0 THEN <<>>
    ELSE IF Head(mask) THEN <<Head(a)>> \o SelectMask(Tail(a), Tail(mask))
         ELSE SelectMask(Tail(a), Tail(mask))

\* What prepare_data returns for the table tbl.
PrepareDataOn(tbl) ==
    IF StandardizeRaises(tbl)
    THEN [op |-> "prepare_data", outcome |-> "ZeroDivisionError",
          y |-> <<>>, X_events |-> <<>>]
    ELSE LET y == [i \in 1..Len(tbl) |-> tbl[i].target]
             X == Standardize(tbl)
             valid_idx == [i \in 1..Len(tbl) |-> KeepRow(y[i], X[i])]
         IN [op |-> "prepare_data", outcome |-> "ok",
             y |-> SelectMask(y, valid_idx),
             X_events |-> SelectMask(X, valid_idx)]

\* ModelRunner.__init__ has read the table.
PrepInit ==
    /\ \E len \in 0..MaxRows :
       \E missing \in [1..len -> BOOLEAN] :
       \E ev \in [1..len -> SeqsOf(EventCells, NumEvents)] :
           data = TableOf(len, missing, ev)
    /\ prep = NoPrep

\* y, X_events = self.prepare_data()
PrepareData ==
    /\ prep' = PrepareDataOn(data)
    /\ UNCHANGED data
    /\ UNCHANGED notPrepVars

InitPrep ==
    /\ PrepInit /\ ObjPinned /\ CmpPinned /\ CoefPinned /\ RunPinned
    /\ PostPinned /\ SegPinned /\ LikPinned /\ StorePinned /\ ConvPinned
    /\ SrvPinned

NextPrep == PrepareData

SpecPrep == InitPrep /\ [][NextPrep]_vars

(***************************************************************************)
(* Posterior summaries and change-point extraction (specification          *)
(* SpecPost).  The posterior of one entry of changepoints_sorted is kept   *)
(* as the number of pooled (chain, draw) samples at each time index.       *)
(***************************************************************************)
\* The mass of az.hdi when the call names none: ArviZ's default, 0.94.
HdiProb == [num |-> 94, den |-> 100]

\* A rational number.
Rat(num, den) == [num |-> num, den |-> den]

\* The posteriors of a fit on a series of n observations.
Posteriors(n) ==
    {b \in [0..(n - 1) -> 0..NumSamples] :
        SumOver([i \in 1..n |-> b[i - 1]], n) = NumSamples}

\* The number of samples of b at time indices up to v.
CountUpTo(b, v) == SumOver([i \in 1..(v + 1) |-> b[i - 1]], v + 1)

\* np.sort(samples)[p], p counted from 0.
SortedAt(b, p) ==
    CHOOSE v \in DOMAIN b :
        /\ p < CountUpTo(b, v)
        /\ v = 0 \/ CountUpTo(b, v - 1) <= p

\* The least and the largest sample.
MinSample(b) == SortedAt(b, 0)
MaxSample(b) == SortedAt(b, NumSamples - 1)

\* changepoints_posterior.mean(axis=(0, 1))
PosteriorMeanOverOneLess(b) ==
    Rat(SumOver([i \in 1..Cardinality(DOMAIN b) |-> (i - 1) * b[i - 1]],
                Cardinality(DOMAIN b)), NumSamples - 1)
PosteriorMean(b) ==
    Rat(SumOver([i \in 1..Cardinality(DOMAIN b) |-> (i - 1) * b[i - 1]],
                Cardinality(DOMAIN b)), NumSamples)

\* az.hdi on the pooled samples: of the intervals from sorted[i] to
\* sorted[i + floor(hdi_prob * n)] the first of the narrowest ones.
HdiOf(b) ==
    LET interval_idx_inc == (HdiProb.num * NumSamples) \div HdiProb.den
        n_intervals == NumSamples - interval_idx_inc
        width(i) == SortedAt(b, i + interval_idx_inc) - SortedAt(b, i)
        min_idx == CHOOSE i \in 0..(n_intervals - 1) :
                       /\ \A k \in 0..(n_intervals - 1) : width(i) <= width(k)
                       /\ \A k \in 0..(i - 1) : width(k) > width(i)
    IN [lower |-> Rat(SortedAt(b, min_idx), 1),
        upper |-> Rat(SortedAt(b, min_idx + interval_idx_inc), 1)]

\* The quantile levels of app.py, in thousandths.
QuantileLow == 25
QuantileHigh == 975

\* DataArray.quantile(q): linear interpolation between the two samples
\* around position q * (n - 1) of the sorted samples.
QuantileOf(b, permille) ==
    LET h == permille * (NumSamples - 1)
        f == h \div 1000
        frac == h - 1000 * f
        lo == SortedAt(b, f)
        hi == IF f + 1 <= NumSamples - 1 THEN SortedAt(b, f + 1) ELSE lo
    IN Rat(1000 * lo + frac * (hi - lo), 1000)

\* int(x) of a non-negative number: the integer part.
PyInt(r) == r.num \div r.den

\* round(x) of a non-negative number: to the nearest integer, a half to the
\* even neighbour.
PyRound(r) ==
    LET q == r.num \div r.den
        rem == r.num - q * r.den
    IN IF 2 * rem < r.den THEN q
       ELSE IF 2 * rem > r.den THEN q + 1
       ELSE IF q % 2 = 0 THEN q ELSE q + 1

\* data.iloc[i] of a table of len rows raises IndexError.
IlocRaises(i, len) == i >= len \/ i < 0 - len

Max(a, b) == IF a >= b THEN a ELSE b
Min(a, b) == IF a <= b THEN a ELSE b

\* The backend has loaded a table of data_len rows and a mapping whose
\* event fit was sampled on a series of some length.
PostInit ==
    /\ data_len \in 1..MaxN
    /\ \E n \in 1..MaxN : samples \in Posteriors(n)
    /\ ext = [op |-> "load", kind |-> "ok", lookups |-> {}]

\* BrentChangePointModel.get_changepoints on the fitted object.
ObjGetChangepoints ==
    /\ ext' = [op |-> "get_changepoints", kind |-> "ok", lookups |-> {},
               mean |-> PosteriorMean(samples),
               lower |-> HdiOf(samples).lower,
               upper |-> HdiOf(samples).upper]
    /\ UNCHANGED <<samples, data_len>>
    /\ UNCHANGED notPostVars

\* GET /api/model/changepoints of app.py.
AppGetChangepoints ==
    /\ LET mean_cp == PosteriorMean(samples)
           idx == PyInt(mean_cp)
       IN ext' = IF IlocRaises(idx, data_len)
                 THEN [op |-> "app_changepoints", kind |-> "IndexError",
                       lookups |-> {idx}]
                 ELSE [op |-> "app_changepoints", kind |-> "ok",
                       lookups |-> {idx},
                       mean |-> Rat(idx, 1),
                       lower |-> Rat(PyInt(QuantileOf(samples, QuantileLow)), 1),
                       upper |-> Rat(PyInt(QuantileOf(samples, QuantileHigh)), 1)]
    /\ UNCHANGED <<samples, data_len>>
    /\ UNCHANGED notPostVars

\* GET /changepoints of routes/model_routes.py: a change point whose index
\* is outside the table is skipped.
RoutesGetChangePoints ==
    /\ LET cp_idx == PyRound(PosteriorMean(samples))
           hdi_lower_idx == PyRound(HdiOf(samples).lower)
           hdi_upper_idx == PyRound(HdiOf(samples).upper)
           lower_at == Max(0, hdi_lower_idx)
           upper_at == Min(data_len - 1, hdi_upper_idx)
       IN ext' =
            IF cp_idx < 0 \/ cp_idx >= data_len
            THEN [op |-> "routes_changepoints", kind |-> "skipped",
                  lookups |-> {}]
            ELSE IF IlocRaises(lower_at, data_len)
            THEN [op |-> "routes_changepoints", kind |-> "IndexError",
                  lookups |-> {cp_idx, lower_at}]
            ELSE IF IlocRaises(upper_at, data_len)
            THEN [op |-> "routes_changepoints", kind |-> "IndexError",
                  lookups |-> {cp_idx, lower_at, upper_at}]
            ELSE [op |-> "routes_changepoints", kind |-> "ok",
                  lookups |-> {cp_idx, lower_at, upper_at},
                  mean |-> Rat(cp_idx, 1),
                  lower |-> Rat(hdi_lower_idx, 1),
                  upper |-> Rat(hdi_upper_idx, 1)]
    /\ UNCHANGED <<samples, data_len>>
    /\ UNCHANGED notPostVars

\* ChangePointVisualizer.plot_changepoints_on_series.
PlotChangepointsOnSeries ==
    /\ LET idx == PyInt(PosteriorMean(samples))
       IN ext' = [op |-> "plot_changepoints",
                  kind |-> IF IlocRaises(idx, data_len)
                           THEN "IndexError" ELSE "ok",
                  lookups |-> {idx}]
    /\ UNCHANGED <<samples, data_len>>
    /\ UNCHANGED notPostVars

InitPost ==
    /\ PostInit /\ ObjPinned /\ CmpPinned /\ CoefPinned /\ RunPinned
    /\ PrepPinned /\ SegPinned /\ LikPinned /\ StorePinned /\ ConvPinned
    /\ SrvPinned

NextPost ==
    \/ ObjGetChangepoints
    \/ AppGetChangepoints
    \/ RoutesGetChangePoints
    \/ PlotChangepointsOnSeries

SpecPost == InitPost /\ [][NextPost]_vars

(***************************************************************************)
(* Segment reconstruction (specification SpecSeg).  Rows and time indices  *)
(* count from 0; the date of row r of the table is day r.                  *)
(***************************************************************************)
\* The posterior means of changepoints_sorted of a fit with m change
\* points on a series of n observations: non-decreasing numbers of
\* [0, n-1], here on the grid of 1/MeanDen.
ChangepointMeans(m, n) ==
    {c \in [1..m -> {Rat(k, MeanDen) : k \in 0..(MeanDen * (n - 1))}] :
        \A i \in 1..(m - 1) : c[i].num <= c[i + 1].num}

\* data.iloc[i]: the row that a valid position i names; a negative i
\* counts from the end of the table.
IlocRow(i, len) == IF i < 0 THEN len + i ELSE i

\* y[start:end].mean() and .std() of the column y: the rows that enter and
\* whether the result is NaN (no row, or a NaN among them).
SliceStats(y, start, end) ==
    LET rows == {r \in 0..(Len(y) - 1) : start <= r /\ r < end}
    IN [given |-> TRUE,
        rows |-> rows,
        nan |-> rows = {} \/ \E r \in rows : y[r + 1].nan]

\* A listing without empirical statistics.
NoStats == [given |-> FALSE, rows |-> {}, nan |-> FALSE]

\* The entries of app.py's listing, i = 0..m.
AppSegment(tbl, means, i) ==
    LET m == Len(means)
        y == [r \in 1..Len(tbl) |-> tbl[r].target]
        start_idx == IF i > 0 THEN PyInt(means[i]) ELSE 0
        end_idx == IF i < m THEN PyInt(means[i + 1]) ELSE Len(y)
    IN [id |-> i + 1,
        start_idx |-> start_idx,
        end_idx |-> end_idx,
        lookups |-> <<start_idx, end_idx - 1>>,
        start_row |-> IlocRow(start_idx, Len(tbl)),
        end_row |-> IlocRow(end_idx - 1, Len(tbl)),
        duration |-> end_idx - start_idx,
        stats |-> SliceStats(y, start_idx, end_idx),
        model_intercept |-> i,
        model_sigma |-> i]

\* The entries of the listing of routes/model_routes.py, i = 0..m, for the
\* target vector of n_y rows that prepare_data returns.
RoutesSegment(tbl, n_y, means, i) ==
    LET m == Len(means)
        start_idx == IF i > 0 THEN PyRound(means[i]) ELSE 0
        end_idx == IF i < m THEN PyRound(means[i + 1]) ELSE n_y
        start_row == IlocRow(start_idx, Len(tbl))
        end_row == IF end_idx > 0 THEN IlocRow(end_idx - 1, Len(tbl))
                   ELSE start_row
    IN [id |-> i,
        start_idx |-> start_idx,
        end_idx |-> end_idx,
        lookups |-> IF end_idx > 0 THEN <<start_idx, end_idx - 1>>
                    ELSE <<start_idx>>,
        start_row |-> start_row,
        end_row |-> end_row,
        duration |-> end_row - start_row,
        stats |-> NoStats,
        model_intercept |-> i,
        model_sigma |-> i]

\* Some date lookup of the listing raises IndexError.
ListingRaises(entries, len) ==
    \E i \in DOMAIN entries :
        \E k \in DOMAIN entries[i].lookups :
            IlocRaises(entries[i].lookups[k], len)

\* The backend has loaded the table and an event fit that was sampled on
\* the target vector prepare_data returns for it.
SegInit ==
    /\ data \in UNION {Tables(len) : len \in 1..MaxRows}
    /\ Len(PrepareDataOn(data).y) >= 1
    /\ \E m \in 0..MaxM :
           cp_means \in ChangepointMeans(m, Len(PrepareDataOn(data).y))
    /\ seg = [op |-> "load", kind |-> "ok", segments |-> <<>>]
    /\ prep = NoPrep

\* GET /api/model/segments of app.py.
AppGetSegments ==
    /\ LET entries == [k \in 1..(Len(cp_means) + 1) |->
                           AppSegment(data, cp_means, k - 1)]
       IN seg' = IF ListingRaises(entries, Len(data))
                 THEN [op |-> "app_segments", kind |-> "IndexError",
                       segments |-> <<>>]
                 ELSE [op |-> "app_segments", kind |-> "ok",
                       segments |-> entries]
    /\ UNCHANGED <<data, prep, cp_means>>
    /\ UNCHANGED notSegVars

\* GET /segments of routes/model_routes.py.
RoutesGetSegments ==
    /\ LET n_y == Len(PrepareDataOn(data).y)
           entries == [k \in 1..(Len(cp_means) + 1) |->
                           RoutesSegment(data, n_y, cp_means, k - 1)]
       IN seg' = IF ListingRaises(entries, Len(data))
                 THEN [op |-> "routes_segments", kind |-> "IndexError",
                       segments |-> <<>>]
                 ELSE [op |-> "routes_segments", kind |-> "ok",
                       segments |-> entries]
    /\ UNCHANGED <<data, prep, cp_means>>
    /\ UNCHANGED notSegVars

\* One entry of the change-point listing of app.py: the time index and the
\* row of the table whose date is reported.
AppChangepoint(tbl, means, i) ==
    [id |-> i,
     time_index |-> PyInt(means[i]),
     lookups |-> <<PyInt(means[i])>>,
     date_row |-> IlocRow(PyInt(means[i]), Len(tbl))]

\* One entry of the change-point listing of routes/model_routes.py.
RoutesChangePoint(tbl, means, i) ==
    [id |-> i,
     time_index |-> PyRound(means[i]),
     lookups |-> <<PyRound(means[i])>>,
     date_row |-> IlocRow(PyRound(means[i]), Len(tbl))]

\* GET /api/model/changepoints of app.py, as far as the time index and the
\* date of each change point go.
SegAppGetChangepoints ==
    /\ LET entries == [k \in 1..Len(cp_means) |->
                           AppChangepoint(data, cp_means, k)]
       IN seg' = IF ListingRaises(entries, Len(data))
                 THEN [op |-> "app_changepoints", kind |-> "IndexError",
                       changepoints |-> <<>>]
                 ELSE [op |-> "app_changepoints", kind |-> "ok",
                       changepoints |-> entries]
    /\ UNCHANGED <<data, prep, cp_means>>
    /\ UNCHANGED notSegVars

\* GET /changepoints of routes/model_routes.py, likewise: an index outside
\* the table is skipped.
SegRoutesGetChangePoints ==
    /\ LET entries == [k \in 1..Len(cp_means) |->
                           RoutesChangePoint(data, cp_means, k)]
           in_bounds == [k \in 1..Len(cp_means) |->
                            ~(entries[k].time_index < 0
                                \/ entries[k].time_index >= Len(data))]
       IN seg' = [op |-> "routes_changepoints", kind |-> "ok",
                  changepoints |-> SelectMask(entries, in_bounds)]
    /\ UNCHANGED <<data, prep, cp_means>>
    /\ UNCHANGED notSegVars

\* ChangePointVisualizer.plot_segment_characteristics: the durations and
\* the mean returns it plots, computed as app.py computes them.
PlotSegmentCharacteristics ==
    /\ seg' = [op |-> "plot_segments", kind |-> "ok",
               segments |-> [k \in 1..(Len(cp_means) + 1) |->
                   LET e == AppSegment(data, cp_means, k - 1)
                   IN [start_idx |-> e.start_idx, end_idx |-> e.end_idx,
                       duration |-> e.duration, stats |-> e.stats]]]
    /\ UNCHANGED <<data, prep, cp_means>>
    /\ UNCHANGED notSegVars

InitSeg ==
    /\ SegInit /\ ObjPinned /\ CmpPinned /\ CoefPinned /\ RunPinned
    /\ PostPinned /\ LikPinned /\ StorePinned /\ ConvPinned
    /\ SrvPinned

NextSeg ==
    \/ AppGetSegments
    \/ RoutesGetSegments
    \/ PlotSegmentCharacteristics
    \/ SegAppGetChangepoints
    \/ SegRoutesGetChangePoints

SpecSeg == InitSeg /\ [][NextSeg]_vars

(***************************************************************************)
(* The linear predictor of EventCovariateModel (specification SpecLik).    *)
(* An entry of a parameter vector is kept as the position it is read at:   *)
(* segment_intercepts[i] is the intercept term i.                          *)
(***************************************************************************)
\* The values of changepoints_sorted in one draw: m non-decreasing time
\* indices of a series of n observations.
SortedChangepoints(m, n) ==
    {c \in SeqsOf(0..(n - 1), m) : \A i \in 1..(m - 1) : c[i] <= c[i + 1]}

\* The values of an entry of X_events and of event_coefficients in a draw.
CovariateValues == {0, 1}
CoefficientValues == {0, 1}

\* pm.math.dot(X_events, event_coefficients)[t]
Dot(row, coefficients) ==
    SumOver([j \in 1..Len(row) |-> row[j] * coefficients[j]], Len(row))

\* mu[t] = segment_intercepts[segment_idx[t]] + event_effect[t], kept as
\* its two addends.
LikelihoodMeanPerSegment(segment_idx, X, coefficients, t) ==
    [segment_effect |-> segment_idx[t],
     event_effect |-> Dot(X[t], coefficients) * (segment_idx[t] + 1)]
LikelihoodMean(segment_idx, X, coefficients, t) ==
    [segment_effect |-> segment_idx[t],
     event_effect |-> Dot(X[t], coefficients)]

\* sigma[t] = segment_sigmas[segment_idx[t]]
LikelihoodSigma(segment_idx, t) == segment_idx[t]

\* The nodes below the priors for one draw.
EventLikelihood(in) ==
    LET segment_idx ==
            [t \in 1..in.n |-> SearchSorted(in.changepoints_sorted, t - 1)]
    IN [op |-> "likelihood",
        n_intercepts |-> Len(in.changepoints_sorted) + 1,
        n_sigmas |-> Len(in.changepoints_sorted) + 1,
        n_coefficients |-> Len(in.event_coefficients),
        segment_idx |-> segment_idx,
        mu |-> [t \in 1..in.n |->
                   LikelihoodMean(segment_idx, in.X_events,
                                  in.event_coefficients, t)],
        sigma |-> [t \in 1..in.n |-> LikelihoodSigma(segment_idx, t)]]

\* build_model(y, X_events) has declared the graph; the sampler has drawn
\* the change points and the coefficients.
LikInit ==
    /\ \E n \in 1..MaxRows, m \in 0..MaxM :
           lik_in \in [n : {n},
                       changepoints_sorted : SortedChangepoints(m, n),
                       X_events : SeqsOf(SeqsOf(CovariateValues, NumEvents), n),
                       event_coefficients : SeqsOf(CoefficientValues, NumEvents)]
    /\ lik = [op |-> "none"]

\* The graph is evaluated for the draw.
EvaluateLikelihood ==
    /\ lik' = EventLikelihood(lik_in)
    /\ UNCHANGED lik_in
    /\ UNCHANGED notLikVars

InitLik ==
    /\ LikInit /\ ObjPinned /\ CmpPinned /\ CoefPinned /\ RunPinned
    /\ PrepPinned /\ PostPinned /\ SegPinned /\ StorePinned /\ ConvPinned
    /\ SrvPinned

NextLik == EvaluateLikelihood

SpecLik == InitLik /\ [][NextLik]_vars

(***************************************************************************)
(* Persistence of the results mapping (specification SpecStore).  A fit is *)
(* kept as its WAIC value and one posterior mean.                          *)
(***************************************************************************)
\* No file at a path, no mapping saved or loaded.
Absent == [format |-> "none", items |-> <<>>]
NoMapping == <<>>

\* The fits of a results mapping and the results mappings of a runner.
StoredFits == [waic : 1..MaxWaic, mean : {0, 1}]
StoredResults == UNION {[keys -> StoredFits] : keys \in SUBSET ModelKeys}

\* The key order of a mapping in a file.
KeyOrder == <<"basic_model", "event_model">>

\* pickle.dump(mapping, f): the file holds the items of the mapping.
PickleDump(mapping) ==
    [format |-> "pickle",
     items |-> SelectSeq([i \in 1..Len(KeyOrder) |->
                              [key |-> KeyOrder[i],
                               present |-> KeyOrder[i] \in DOMAIN mapping,
                               value |-> IF KeyOrder[i] \in DOMAIN mapping
                                         THEN mapping[KeyOrder[i]]
                                         ELSE [waic |-> 1, mean |-> 0]]],
                         LAMBDA it : it.present)]

\* pickle.load(f) of a file that pickle.dump wrote.
PickleLoad(file) ==
    [k \in {file.items[i].key : i \in DOMAIN file.items} |->
        (CHOOSE it \in {file.items[i] : i \in DOMAIN file.items} :
             it.key = k).value]

\* json.load(f) raises for a file that is not JSON text.
JsonLoadRaises(file) == file.format # "json"

\* DataLoader._generate_mock_model_results()
MockModelResults ==
    [k \in {"change_points", "event_coefficients", "model_status"} |->
        [waic |-> 0, mean |-> 0]]

\* DataLoader.load_model_results on the file at a path.
LoadModelResultsOn(file) ==
    IF file = Absent THEN MockModelResults
    ELSE IF JsonLoadRaises(file) THEN MockModelResults
    ELSE PickleLoad(file)

\* A runner holds its fits; the files of an earlier run may exist: no
\* model_results.pkl yet, and model_results.json absent or some JSON file.
StoreInit ==
    /\ st_results \in StoredResults
    /\ pkl_file = Absent
    /\ json_file \in {Absent} \cup
           {[format |-> "json", items |-> PickleDump(r).items] :
                r \in StoredResults}
    /\ saved = NoMapping
    /\ has_saved = FALSE
    /\ readback = [op |-> "none", value |-> NoMapping, is_none |-> TRUE]

\* runner.save_results(.../model_results.pkl)
SaveResults ==
    /\ pkl_file' = PickleDump(st_results)
    /\ saved' = st_results
    /\ has_saved' = TRUE
    /\ readback' = [op |-> "save_results", value |-> NoMapping, is_none |-> TRUE]
    /\ UNCHANGED <<st_results, json_file>>
    /\ UNCHANGED notStoreVars

\* load_model_data() of routes/model_routes.py in a new process:
\* model_results stays None without the file.
LoadModelData ==
    /\ readback' = IF pkl_file = Absent
                   THEN [op |-> "load_model_data", value |-> NoMapping,
                         is_none |-> TRUE]
                   ELSE [op |-> "load_model_data", value |-> PickleLoad(pkl_file),
                         is_none |-> FALSE]
    /\ UNCHANGED <<st_results, pkl_file, json_file, saved, has_saved>>
    /\ UNCHANGED notStoreVars

\* load_data() of app.py in a new process.
LoadData ==
    /\ readback' = IF pkl_file = Absent
                   THEN [op |-> "load_data", value |-> NoMapping,
                         is_none |-> TRUE]
                   ELSE [op |-> "load_data", value |-> PickleLoad(pkl_file),
                         is_none |-> FALSE]
    /\ UNCHANGED <<st_results, pkl_file, json_file, saved, has_saved>>
    /\ UNCHANGED notStoreVars

\* DataLoader.load_model_results(): the default path is model_results.json.
LoadModelResults ==
    /\ readback' = [op |-> "load_model_results",
                    value |-> LoadModelResultsOn(json_file),
                    is_none |-> FALSE]
    /\ UNCHANGED <<st_results, pkl_file, json_file, saved, has_saved>>
    /\ UNCHANGED notStoreVars

\* DataLoader.load_model_results(file_path) with the path of the pickle.
LoadModelResultsFromPickle ==
    /\ readback' = [op |-> "load_model_results",
                    value |-> LoadModelResultsOn(pkl_file),
                    is_none |-> FALSE]
    /\ UNCHANGED <<st_results, pkl_file, json_file, saved, has_saved>>
    /\ UNCHANGED notStoreVars

InitStore ==
    /\ StoreInit /\ ObjPinned /\ CmpPinned /\ CoefPinned /\ RunPinned
    /\ PrepPinned /\ PostPinned /\ SegPinned /\ LikPinned /\ ConvPinned
    /\ SrvPinned

NextStore ==
    \/ SaveResults
    \/ LoadModelData
    \/ LoadData
    \/ LoadModelResults
    \/ LoadModelResultsFromPickle

SpecStore == InitStore /\ [][NextStore]_vars

(***************************************************************************)
(* Convergence reporting of routes/model_routes.py (specification          *)
(* SpecConv).  A fit is kept as the R-hat (in hundredths) and the          *)
(* effective sample size of each of its parameters.                        *)
(***************************************************************************)
\* The R-hat values (1.00, 1.05, 1.10) and effective sample sizes of a
\* parameter.
RhatValues == {100, 105, 110}
EssValues == {1, 2}

\* The R-hat below which the endpoints call a fit converged: 1.05.
RhatThreshold == 105

RECURSIVE MaxOver(_)
\* rhat.max() over the parameters.
MaxOver(f) ==
    IF Len(f) = 1 THEN f[1] ELSE Max(Head(f), MaxOver(Tail(f)))

RECURSIVE MinOver(_)
\* ess.min() over the parameters.
MinOver(f) ==
    IF Len(f) = 1 THEN f[1] ELSE Min(Head(f), MinOver(Tail(f)))

\* The 'convergence' block both endpoints are written to answer with.
ConvergenceBlock(rhat, ess) ==
    [r_hat_max |-> MaxOver(rhat),
     effective_sample_size_min |-> MinOver(ess),
     is_converged |-> MaxOver(rhat) < RhatThreshold]

\* The backend serves no mapping, or one with any of the two fits; the
\* event trace has the drawn statistics.
ConvInit ==
    /\ conv_served \in
           {[is_none |-> TRUE, keys |-> {}]} \cup
           [is_none : {FALSE}, keys : SUBSET ModelKeys]
    /\ conv_rhat \in SeqsOf(RhatValues, NumEvents)
    /\ conv_ess \in SeqsOf(EssValues, NumEvents)
    /\ conv_resp = [op |-> "load", kind |-> "ok", has_convergence |-> FALSE]

\* GET /status of routes/model_routes.py.
ConvGetModelStatus ==
    /\ conv_resp' =
         IF conv_served.is_none
         THEN [op |-> "status", kind |-> "ok", has_convergence |-> FALSE]
         ELSE IF conv_served.keys # ModelKeys
         THEN [op |-> "status", kind |-> "ok", has_convergence |-> FALSE]
         ELSE IF ~DatasetHasEmpty
         THEN [op |-> "status", kind |-> "AttributeError",
               has_convergence |-> FALSE]
         ELSE [op |-> "status", kind |-> "ok", has_convergence |-> TRUE,
               convergence |-> ConvergenceBlock(conv_rhat, conv_ess)]
    /\ UNCHANGED <<conv_served, conv_rhat, conv_ess>>
    /\ UNCHANGED notConvVars

\* GET /diagnostics of routes/model_routes.py.
ConvGetModelDiagnostics ==
    /\ conv_resp' =
         IF conv_served.is_none
         THEN [op |-> "diagnostics", kind |-> "error", has_convergence |-> FALSE]
         ELSE IF "event_model" \notin conv_served.keys
         THEN [op |-> "diagnostics", kind |-> "error", has_convergence |-> FALSE]
         ELSE IF ~RunnerHasEventCols
         THEN [op |-> "diagnostics", kind |-> "AttributeError",
               has_convergence |-> FALSE]
         ELSE [op |-> "diagnostics", kind |-> "ok", has_convergence |-> TRUE,
               convergence |-> ConvergenceBlock(conv_rhat, conv_ess)]
    /\ UNCHANGED <<conv_served, conv_rhat, conv_ess>>
    /\ UNCHANGED notConvVars

InitConv ==
    /\ ConvInit /\ ObjPinned /\ CmpPinned /\ CoefPinned /\ RunPinned
    /\ PrepPinned /\ PostPinned /\ SegPinned /\ LikPinned /\ StorePinned
    /\ SrvPinned

NextConv ==
    \/ ConvGetModelStatus
    \/ ConvGetModelDiagnostics

SpecConv == InitConv /\ [][NextConv]_vars

(***************************************************************************)
(* One backend process (specification SpecSrv).  The fit that request r    *)
(* samples is kept as the number r; the fits of the results file found at  *)
(* start-up have the number 0.                                             *)
(***************************************************************************)
\* The entry {'trace': trace, 'waic': az.waic(trace, ...)} that a run
\* stores: both parts come from the local variable trace.
FitEntry(r) == [trace |-> r, waic_of |-> r]

\* The mappings a results file of an earlier process can hold.
LoadedResults == UNION {[K -> {FitEntry(0)}] : K \in SUBSET ModelKeys}

\* Where run_basic_model and run_event_model can raise: in build_model, in
\* fit (the sampler), in az.waic; "ok" is the call that returns.
Outcomes == {"ok", "build_model", "fit", "waic"}

\* The assignment self.results[key] = {...} is the statement after
\* build_model, fit and az.waic: it is reached when none of them raised.
StoresAlways(outcome) == TRUE
Stores(outcome) == outcome = "ok"

\* self.basic_model / self.event_model after a call of request r that ended
\* with the outcome: the attribute is assigned before build_model is called.
ObjectAfter(r, outcome) ==
    [owner |-> r,
     built |-> outcome # "build_model",
     fitted |-> outcome \in {"ok", "waic"}]

\* The object the global model_results refers to.
Served == IF srv_ref = "runner" THEN srv_results
          ELSE IF srv_ref = "loaded" THEN srv_loaded ELSE <<>>

\* The guard of the query endpoints lets the request through.
EventFitServed == srv_ref # "None" /\ "event_model" \in DOMAIN Served

\* load_data of app.py reads the CSV first and leaves all three globals
\* None when that raises; load_model_data of routes/model_routes.py
\* unpickles the results file first, and without the CSV leaves data None
\* and fails in ModelRunner(data_path), which leaves the runner None.
SrvInit ==
    /\ srv_backend \in Backends
    /\ \E csv \in BOOLEAN :
       \E pkl \in BOOLEAN :
           /\ srv_data = csv
           /\ srv_runner = csv
           /\ IF pkl /\ (csv \/ srv_backend = "routes")
              THEN srv_ref = "loaded" /\ srv_loaded \in LoadedResults
              ELSE srv_ref = "None" /\ srv_loaded = <<>>
    /\ srv_results = <<>>
    /\ srv_basic_model = NoObject
    /\ srv_event_model = NoObject
    /\ srv_pc = "idle"
    /\ srv_run = 0
    /\ srv_ok_run = 0
    /\ srv_resp = [NoAnswer EXCEPT !.op = "load", !.kind = "ok"]

\* An answer of the process.
Answer(op, kind, guard, tr, fitted) ==
    [op |-> op, kind |-> kind, guard |-> guard, trace |-> tr,
     models_fitted |-> fitted]

\* POST /run without a runner: app.py answers the error; routes calls
\* load_model_data again, which ends as at start-up, and answers the error.
SrvRunModelNoRunner ==
    /\ srv_pc = "idle"
    /\ ~srv_runner
    /\ srv_run < MaxRuns
    /\ srv_run' = srv_run + 1
    /\ srv_resp' = Answer("run", "error", FALSE, 0, FALSE)
    /\ UNCHANGED <<srv_backend, srv_data, srv_runner, srv_results, srv_loaded,
                   srv_ref, srv_basic_model, srv_event_model, srv_pc,
                   srv_ok_run>>
    /\ UNCHANGED notSrvVars

\* POST /run with a runner: the handler reads the parameters.
SrvRunModelBegin ==
    /\ srv_pc = "idle"
    /\ srv_runner
    /\ srv_run < MaxRuns
    /\ srv_run' = srv_run + 1
    /\ srv_pc' = "run_basic_model"
    /\ srv_resp' = Answer("run", "pending", FALSE, 0, FALSE)
    /\ UNCHANGED <<srv_backend, srv_data, srv_runner, srv_results, srv_loaded,
                   srv_ref, srv_basic_model, srv_event_model, srv_ok_run>>
    /\ UNCHANGED notSrvVars

\* runner.run_basic_model(...) in the handler; an exception ends the
\* request in the handler's except clause.
SrvRunBasicModel ==
    /\ srv_pc = "run_basic_model"
    /\ \E outcome \in Outcomes :
           /\ srv_basic_model' = ObjectAfter(srv_run, outcome)
           /\ srv_results' =
                  IF Stores(outcome)
                  THEN SetItem(srv_results, "basic_model", FitEntry(srv_run))
                  ELSE srv_results
           /\ srv_pc' = IF outcome = "ok" THEN "run_event_model" ELSE "idle"
           /\ srv_resp' =
                  IF outcome = "ok"
                  THEN Answer("run_basic_model", "ok", FALSE, srv_run, FALSE)
                  ELSE Answer("run_basic_model", "error", FALSE, 0, FALSE)
    /\ UNCHANGED <<srv_backend, srv_data, srv_runner, srv_loaded, srv_ref,
                   srv_event_model, srv_run, srv_ok_run>>
    /\ UNCHANGED notSrvVars

\* runner.run_event_model(...) in the handler.
SrvRunEventModel ==
    /\ srv_pc = "run_event_model"
    /\ \E outcome \in Outcomes :
           /\ srv_event_model' = ObjectAfter(srv_run, outcome)
           /\ srv_results' =
                  IF Stores(outcome)
                  THEN SetItem(srv_results, "event_model", FitEntry(srv_run))
                  ELSE srv_results
           /\ srv_pc' = IF outcome # "ok" THEN "idle"
                        ELSE IF srv_backend = "routes" THEN "assign"
                        ELSE "compare_models"
           /\ srv_resp' =
                  IF outcome = "ok"
                  THEN Answer("run_event_model", "ok", FALSE, srv_run, FALSE)
                  ELSE Answer("run_event_model", "error", FALSE, 0, FALSE)
    /\ UNCHANGED <<srv_backend, srv_data, srv_runner, srv_loaded, srv_ref,
                   srv_basic_model, srv_run, srv_ok_run>>
    /\ UNCHANGED notSrvVars

\* model_results = model_runner_instance.results, in routes only: app.py's
\* handler has no such statement.
SrvAssignModelResults ==
    /\ srv_pc = "assign"
    /\ srv_ref' = "runner"
    /\ srv_pc' = "compare_models"
    /\ srv_resp' = Answer("assign", "ok", FALSE, srv_run, FALSE)
    /\ UNCHANGED <<srv_backend, srv_data, srv_runner, srv_results, srv_loaded,
                   srv_basic_model, srv_event_model, srv_run, srv_ok_run>>
    /\ UNCHANGED notSrvVars

\* comparison = runner.compare_models() in the handler.
SrvCompareModels ==
    /\ srv_pc = "compare_models"
    /\ srv_pc' = IF CompareModelsRaises(srv_results) THEN "idle"
                 ELSE "save_results"
    /\ srv_resp' =
           IF CompareModelsRaises(srv_results)
           THEN Answer("compare_models", "error", FALSE, 0, FALSE)
           ELSE Answer("compare_models", "ok", FALSE, srv_run, FALSE)
    /\ UNCHANGED <<srv_backend, srv_data, srv_runner, srv_results, srv_loaded,
                   srv_ref, srv_basic_model, srv_event_model, srv_run,
                   srv_ok_run>>
    /\ UNCHANGED notSrvVars

\* runner.save_results(output_path) and the success answer; writing the
\* file can raise OSError, which the handler answers as an error.
SrvSaveResults ==
    /\ srv_pc = "save_results"
    /\ srv_pc' = "idle"
    /\ \E written \in BOOLEAN :
           /\ srv_ok_run' = IF written THEN srv_run ELSE srv_ok_run
           /\ srv_resp' =
                  IF written
                  THEN Answer("run", "success", FALSE, srv_run, FALSE)
                  ELSE Answer("run", "error", FALSE, 0, FALSE)
    /\ UNCHANGED <<srv_backend, srv_data, srv_runner, srv_results, srv_loaded,
                   srv_ref, srv_basic_model, srv_event_model, srv_run>>
    /\ UNCHANGED notSrvVars

\* What a query leaves alone: everything but the answer.
srvQueryFrame ==
    <<srv_backend, srv_data, srv_runner, srv_results, srv_loaded, srv_ref,
      srv_basic_model, srv_event_model, srv_pc, srv_run, srv_ok_run>>

\* The trace a query reads: model_results['event_model']['trace'].
ServedEventTrace == Served["event_model"].trace

\* GET /status of either backend; routes goes on to its convergence block
\* when both fits are served.
SrvGetModelStatus ==
    /\ srv_pc = "idle"
    /\ srv_backend \in Backends
    /\ srv_resp' =
           IF srv_ref = "None"
           THEN Answer("status", "ok", TRUE, 0, FALSE)
           ELSE IF /\ srv_backend = "routes"
                   /\ ~CompareModelsRaises(Served)
                   /\ ~DatasetHasEmpty
           THEN Answer("status", "AttributeError", TRUE, 0, FALSE)
           ELSE Answer("status", "ok", TRUE,
                       IF "event_model" \in DOMAIN Served
                       THEN ServedEventTrace ELSE 0,
                       TRUE)
    /\ UNCHANGED srvQueryFrame
    /\ UNCHANGED notSrvVars

\* GET /changepoints: app.py indexes data, which is loaded whenever
\* model_results is; routes takes len(data), a TypeError on None.
SrvGetChangePoints ==
    /\ srv_pc = "idle"
    /\ srv_backend \in Backends
    /\ srv_resp' =
           IF ~EventFitServed
           THEN Answer("changepoints", "error", FALSE, 0, FALSE)
           ELSE IF ~srv_data
           THEN Answer("changepoints", "TypeError", TRUE, 0, FALSE)
           ELSE Answer("changepoints", "ok", TRUE, ServedEventTrace, TRUE)
    /\ UNCHANGED srvQueryFrame
    /\ UNCHANGED notSrvVars

\* GET /event-coefficients: app.py has the names as a literal; routes
\* reads model_runner_instance.event_cols.
SrvGetEventCoefficients ==
    /\ srv_pc = "idle"
    /\ srv_backend \in Backends
    /\ srv_resp' =
           IF ~EventFitServed
           THEN Answer("event-coefficients", "error", FALSE, 0, FALSE)
           ELSE IF srv_backend = "routes"
                   /\ (~srv_runner \/ ~RunnerHasEventCols)
           THEN Answer("event-coefficients", "AttributeError", TRUE, 0, FALSE)
           ELSE Answer("event-coefficients", "ok", TRUE, ServedEventTrace,
                       TRUE)
    /\ UNCHANGED srvQueryFrame
    /\ UNCHANGED notSrvVars

\* GET /segments: app.py reads data; routes calls
\* model_runner_instance.prepare_data().
SrvGetSegments ==
    /\ srv_pc = "idle"
    /\ srv_backend \in Backends
    /\ srv_resp' =
           IF ~EventFitServed
           THEN Answer("segments", "error", FALSE, 0, FALSE)
           ELSE IF srv_backend = "routes" /\ ~srv_runner
           THEN Answer("segments", "AttributeError", TRUE, 0, FALSE)
           ELSE Answer("segments", "ok", TRUE, ServedEventTrace, TRUE)
    /\ UNCHANGED srvQueryFrame
    /\ UNCHANGED notSrvVars

\* GET /diagnostics (routes only): reads
\* model_runner_instance.event_model.model and .event_cols.
SrvGetModelDiagnostics ==
    /\ srv_pc = "idle"
    /\ srv_backend = "routes"
    /\ srv_resp' =
           IF ~EventFitServed
           THEN Answer("diagnostics", "error", FALSE, 0, FALSE)
           ELSE IF \/ ~srv_runner
                   \/ srv_event_model = NoObject
                   \/ ~RunnerHasEventCols
           THEN Answer("diagnostics", "AttributeError", TRUE, 0, FALSE)
           ELSE Answer("diagnostics", "ok", TRUE, ServedEventTrace, TRUE)
    /\ UNCHANGED srvQueryFrame
    /\ UNCHANGED notSrvVars

InitSrv ==
    /\ SrvInit /\ ObjPinned /\ CmpPinned /\ CoefPinned /\ RunPinned
    /\ PrepPinned /\ PostPinned /\ SegPinned /\ LikPinned /\ StorePinned
    /\ ConvPinned

NextSrv ==
    \/ SrvRunModelNoRunner
    \/ SrvRunModelBegin
    \/ SrvRunBasicModel
    \/ SrvRunEventModel
    \/ SrvAssignModelResults
    \/ SrvCompareModels
    \/ SrvSaveResults
    \/ SrvGetModelStatus
    \/ SrvGetChangePoints
    \/ SrvGetEventCoefficients
    \/ SrvGetSegments
    \/ SrvGetModelDiagnostics

SpecSrv == InitSrv /\ [][NextSrv]_vars

(***************************************************************************)
(* Properties of the model object (specification Spec).                    *)
(***************************************************************************)
\* Number of change points of the sorted sequence cs that are <= t.
CountAtOrBefore(cs, t) == Cardinality({i \in 1..Len(cs) : cs[i] <= t})

\* The time indices of a draw that are assigned segment i.
SegmentRange(tr, i) == {t \in 0..(tr.n - 1) : tr.segment_idx[t + 1] = i}

\* C1 (as claimed): in every draw, a time index before the first change
\* point has segment 0 and a time index at or after a change point and
\* before the next one has the segment that starts at that change point, so
\* the segment id of t is the number of change points at or before t.
C1_SegmentStartsAtChangePoint ==
    trace # NoTrace =>
        \A t \in 0..(trace.n - 1) :
            trace.segment_idx[t + 1] =
                CountAtOrBefore(trace.changepoints_sorted, t)

\* C2: in every draw the segment ids lie in 0..m, are non-decreasing in t,
\* and the m+1 segments are contiguous index ranges whose union is [0, n).
C2_SegmentsPartition ==
    trace # NoTrace =>
        LET n == trace.n
            m == n_changepoints
            s == trace.segment_idx
        IN /\ Len(trace.changepoints_sorted) = m
           /\ Len(s) = n
           /\ \A t \in 1..n : s[t] \in 0..m
           /\ \A t, u \in 1..n : t <= u => s[t] <= s[u]
           /\ \A i \in 0..m : \A a, b \in SegmentRange(trace, i) :
                  \A c \in a..b : c \in SegmentRange(trace, i)
           /\ UNION {SegmentRange(trace, i) : i \in 0..m} = 0..(n - 1)

\* C2 witness: a draw with two change points where one segment is empty and
\* two segments are not.
C2_Witness ==
    /\ trace # NoTrace
    /\ n_changepoints = 2
    /\ \E i \in 0..2 : SegmentRange(trace, i) = {}
    /\ \E i, j \in 0..2 :
           i # j /\ SegmentRange(trace, i) # {} /\ SegmentRange(trace, j) # {}

\* How often the value v occurs in the sequence s.
Occurrences(s, v) == Cardinality({i \in 1..Len(s) : s[i] = v})

\* C3: in every draw each discretized change point lies in [0, n-1] and
\* changepoints_sorted is a non-decreasing permutation of changepoints.
C3_ChangePointsInRangeAndSorted ==
    trace # NoTrace =>
        LET cp == trace.changepoints
            cs == trace.changepoints_sorted
        IN /\ \A i \in 1..Len(cp) : 0 <= cp[i] /\ cp[i] <= trace.n - 1
           /\ Len(cs) = Len(cp)
           /\ \A i, j \in 1..Len(cs) : i <= j => cs[i] <= cs[j]
           /\ \A v \in 0..MaxN : Occurrences(cs, v) = Occurrences(cp, v)

\* C3 witness: a draw whose probabilities are out of order and include the
\* largest probability, 1, on a series of more than one observation.
C3_Witness ==
    /\ trace # NoTrace
    /\ trace.n > 1
    /\ trace.changepoints # trace.changepoints_sorted
    /\ \E i \in 1..Len(trace.changepoint_probs) :
           trace.changepoint_probs[i] = ProbDen

\* C4: a fit call on an object whose model is None ends in ValueError without
\* invoking the sampler and leaves model and trace as they were (trace None).
C4_FitUnbuiltRaises ==
    [][(model = NoModel /\ last'.op = "fit") =>
           /\ last'.outcome = "ValueError"
           /\ ~last'.sampled
           /\ model' = model
           /\ trace' = trace
           /\ trace' = NoTrace]_vars

\* C4 witness: fit was called on the unbuilt object and raised.
C4_Witness ==
    /\ model = NoModel
    /\ last.op = "fit"
    /\ last.outcome = "ValueError"

\* C5 (as claimed): a trace implies a model, and get_changepoints returns
\* only when fit has completed for the structure that is built now.
C5_ReturnsOnlyWhenFitted ==
    /\ trace # NoTrace => model # NoModel
    /\ (last.op = "get_changepoints" /\ last.outcome = "ok") =>
           (model # NoModel /\ trace # NoTrace /\ trace_current)
    /\ (last.op = "get_changepoints" /\ last.outcome = "ValueError") =>
           ~trace_current

(***************************************************************************)
(* Properties of the runner and the backend (specification SpecCmp).       *)
(***************************************************************************)
\* A fit is missing from the mapping the diagnostics endpoint reads.
ServedFitMissing ==
    \/ model_results_ref = "None"
    \/ "basic_model" \notin DOMAIN ModelResults
    \/ "event_model" \notin DOMAIN ModelResults

\* C6 (as claimed): with a fit missing, compare_models and the diagnostics
\* endpoint answer with their missing-input error (ValueError, the error
\* answer of the endpoint's guard) and with no comparison.
C6_NoPartialComparison ==
    /\ (resp.op = "compare_models" /\ CompareModelsRaises(results)) =>
           resp.kind = "ValueError"
    /\ (resp.op = "diagnostics" /\ ServedFitMissing) => resp.kind = "error"

\* C7: the preferred model that compare_models, POST /run and GET /status
\* report is 'event_model' exactly when event_waic < basic_waic (so
\* 'basic_model' on a tie), and waic_difference is basic_waic - event_waic.
C7_PreferredIffEventLower ==
    /\ (resp.op \in {"compare_models", "run"} /\ resp.kind = "ok") =>
           LET b == results["basic_model"].waic
               e == results["event_model"].waic
           IN /\ resp.comparison.preferred_model \in ModelKeys
              /\ resp.comparison.preferred_model = "event_model" <=> e < b
              /\ resp.comparison.waic_difference = b - e
    /\ (resp.op = "status" /\ resp.kind = "ok" /\ resp.models_fitted
            /\ resp.basic_model_fitted /\ resp.event_model_fitted) =>
           LET b == ModelResults["basic_model"].waic
               e == ModelResults["event_model"].waic
           IN /\ resp.waic_comparison.preferred_model \in ModelKeys
              /\ resp.waic_comparison.preferred_model = "event_model" <=> e < b

\* C7 witness: compare_models has answered for two fits of equal WAIC.
C7_Witness ==
    /\ resp.op = "compare_models"
    /\ resp.kind = "ok"
    /\ results["basic_model"].waic = results["event_model"].waic

\* The fit ("A" is results['basic_model'], "B" is results['event_model'])
\* that a comparison prefers, when A and B were handed over as given
\* (swapped = FALSE) or with their roles exchanged (swapped = TRUE).
PreferredFit(comparison, swapped) ==
    IF comparison.preferred_model = "basic_model"
    THEN (IF swapped THEN "B" ELSE "A")
    ELSE (IF swapped THEN "A" ELSE "B")

\* The results mapping with the two fits exchanged.
Swapped(res) ==
    [k \in DOMAIN res |->
        IF k = "basic_model" THEN res["event_model"] ELSE res["basic_model"]]

\* C8 (as claimed): for every two fits, the comparison and the comparison of
\* the exchanged fits have opposite waic_difference and prefer the same fit.
C8_Antisymmetric ==
    (resp.op = "compare_models" /\ resp.kind = "ok") =>
        LET fwd == resp.comparison
            bwd == CompareModelsOn(Swapped(results))
        IN /\ bwd.waic_difference = -fwd.waic_difference
           /\ PreferredFit(bwd, TRUE) = PreferredFit(fwd, FALSE)

\* C8 (amended): the differences are opposite for every two fits; the same
\* fit is preferred when the WAIC values differ; on a tie either order
\* answers 'basic_model', which names a different fit in each order.
C8_AntisymmetricOffTies ==
    (resp.op = "compare_models" /\ resp.kind = "ok") =>
        LET fwd == resp.comparison
            bwd == CompareModelsOn(Swapped(results))
            tie == results["basic_model"].waic = results["event_model"].waic
        IN /\ bwd.waic_difference = -fwd.waic_difference
           /\ ~tie => PreferredFit(bwd, TRUE) = PreferredFit(fwd, FALSE)
           /\ tie => /\ fwd.preferred_model = "basic_model"
                     /\ bwd.preferred_model = "basic_model"

\* C8 witness: compare_models has answered for two fits of different WAIC.
C8_Witness ==
    /\ resp.op = "compare_models"
    /\ resp.kind = "ok"
    /\ results["basic_model"].waic # results["event_model"].waic

(***************************************************************************)
(* Properties of the coefficient listing (specification SpecCoef).         *)
(***************************************************************************)
\* C9: every listed coefficient is flagged significant exactly when zero is
\* strictly outside its interval (lower > 0 or upper < 0); an interval that
\* contains zero, a bound equal to zero included, is flagged false; the flag
\* expression of the routes listing is the same function of the bounds.
C9_SignificantIffZeroOutside ==
    (resp.op = "event_coefficients" /\ resp.kind = "ok") =>
        /\ Len(resp.coefficients) = NumEvents
        /\ \A i \in 1..NumEvents :
               LET c == resp.coefficients[i]
                   iv == served_event_hdi[i]
               IN /\ c.hdi_lower = iv.lower /\ c.hdi_upper = iv.upper
                  /\ c.significant <=> (iv.lower > 0 \/ iv.upper < 0)
                  /\ (iv.lower <= 0 /\ 0 <= iv.upper) => ~c.significant
    /\ \A iv \in Intervals :
           RoutesSignificant(iv.lower, iv.upper) <=>
               (iv.lower > 0 \/ iv.upper < 0)

\* C9 witness: a listing with one interval that has zero as its lower bound
\* (not significant) and one that lies below zero (significant).
C9_Witness ==
    /\ resp.op = "event_coefficients"
    /\ resp.kind = "ok"
    /\ \E i, j \in 1..NumEvents :
           /\ resp.coefficients[i].hdi_lower = 0
           /\ resp.coefficients[i].hdi_upper > 0
           /\ ~resp.coefficients[i].significant
           /\ resp.coefficients[j].hdi_upper < 0
           /\ resp.coefficients[j].significant

(***************************************************************************)
(* Properties of concurrent requests (specification SpecRun).              *)
(***************************************************************************)
\* C10 (as claimed): no two requests are inside fit on the same model
\* instance at the same time.
C10_NoTwoFitsOnOneInstance ==
    \A r1, r2 \in Requests :
        (r1 # r2 /\ pc[r1] \in {"b_fitting", "e_fitting"}
                 /\ pc[r2] \in {"b_fitting", "e_fitting"}) =>
            target[r1] # target[r2]

(***************************************************************************)
(* Properties of prepare_data (specification SpecPrep).                    *)
(***************************************************************************)
\* Column j of a returned covariate matrix.
ReturnedColumn(X, j) == [i \in 1..Len(X) |-> X[i][j]]

\* The returned column has empirical mean 0: its deviations sum to zero.
MeanIsZero(col) ==
    SumOver([i \in 1..Len(col) |-> col[i].d], Len(col)) = 0

\* The returned column (of mean 0) has empirical standard deviation 1:
\* the mean of the squares d*d*n/q is 1.
StdIsOne(col) ==
    LET r == Len(col)
    IN col[1].n * SumOver([i \in 1..r |-> col[i].d * col[i].d], r)
           = col[1].q * r

\* C11 (as claimed): every column of the returned covariate matrix has
\* empirical mean 0 and empirical standard deviation 1 over the returned
\* rows (a call that returns no row is not judged).
C11_StandardizedOnRetainedRows ==
    (prep.op = "prepare_data" /\ prep.outcome = "ok"
         /\ Len(prep.X_events) > 0) =>
        \A j \in 1..NumEvents :
            LET col == ReturnedColumn(prep.X_events, j)
            IN MeanIsZero(col) /\ StdIsOne(col)

\* C12: the returned target vector and covariate matrix have equal length,
\* position p of both comes from one source row, the source rows appear in
\* source order, and no returned cell is missing.
C12_AlignedAfterDrop ==
    (prep.op = "prepare_data" /\ prep.outcome = "ok") =>
        LET len == Len(prep.y)
            X == Standardize(data)
        IN /\ Len(prep.X_events) = len
           /\ \E src \in [1..len -> 1..Len(data)] :
                  /\ \A p, r \in 1..len : p < r => src[p] < src[r]
                  /\ \A p \in 1..len :
                         /\ prep.y[p] = data[src[p]].target
                         /\ prep.X_events[p] = X[src[p]]
           /\ \A p \in 1..len :
                  /\ ~prep.y[p].nan
                  /\ \A j \in 1..NumEvents : ~prep.X_events[p][j].nan

\* C12 witness: prepare_data dropped the first row (its target is missing)
\* and returned a later one.
C12_Witness ==
    /\ prep.op = "prepare_data"
    /\ Len(data) >= 2
    /\ data[1].target.nan
    /\ Len(prep.y) >= 1
    /\ Len(prep.y) < Len(data)

\* C20: prepare_data returns normally, also for a table that has an event
\* column of equal values.
C20_ZeroVarianceDoesNotRaise ==
    prep.op = "prepare_data" => prep.outcome = "ok"

\* C20 witness: prepare_data was called on a table with rows whose first
\* event column has one value throughout.
C20_Witness ==
    /\ prep.op = "prepare_data"
    /\ Len(data) >= 1
    /\ \A i \in 1..Len(data) :
           ~data[i].events[1].nan /\ data[i].events[1] = data[1].events[1]

\* The source row at position i has its target and all its covariates.
CompleteRow(i) ==
    /\ ~data[i].target.nan
    /\ \A j \in 1..NumEvents : ~data[i].events[j].nan

\* C23 (as claimed): prepare_data returns every source row whose target and
\* covariates are all present; a missing covariate in one row, or a constant
\* covariate column, does not cause complete rows to be dropped.
C23_CompleteRowsReturned ==
    (prep.op = "prepare_data" /\ prep.outcome = "ok") =>
        \A i \in 1..Len(data) :
            CompleteRow(i) =>
                \E k \in 1..Len(prep.y) : prep.y[k] = data[i].target

(***************************************************************************)
(* Properties of the posterior summaries (specification SpecPost).         *)
(***************************************************************************)
\* a <= b for rationals with positive denominators.
RatLeq(a, b) == a.num * b.den <= b.num * a.den

\* An extraction has answered with a point estimate and interval bounds.
Summarized ==
    /\ ext.op \in {"get_changepoints", "app_changepoints", "routes_changepoints"}
    /\ ext.kind = "ok"

C18_LookupsInRange ==
    \A i \in ext.lookups : 0 <= i /\ i <= data_len - 1

(***************************************************************************)
(* Properties of the segment reconstruction (specification SpecSeg).       *)
(***************************************************************************)
\* A backend has answered with its segment listing.
Listed == seg.op \in {"app_segments", "routes_segments"} /\ seg.kind = "ok"

\* The rows of the table that prepare_data returns.
RetainedRows ==
    {r \in 0..(Len(data) - 1) :
        KeepRow(data[r + 1].target, Standardize(data)[r + 1])}

\* C15 (as claimed): with no change point every time index gets segment 0,
\* and the listing has exactly one entry, which starts at the first and
\* ends at the last observation of the series (of the table, or of the rows
\* of it that the model was fitted on).
C15_OneSegmentSpansSeries ==
    /\ \A n \in 1..MaxN :
           /\ \A t \in 1..n : BasicGraph(n, <<>>).segment_idx[t] = 0
           /\ \A t \in 1..n : EventGraph(n, <<>>).segment_idx[t] = 0
    /\ (Listed /\ Len(cp_means) = 0) =>
           /\ Len(seg.segments) = 1
           /\ \/ /\ seg.segments[1].start_row = 0
                 /\ seg.segments[1].end_row = Len(data) - 1
              \/ /\ \A r \in RetainedRows : seg.segments[1].start_row <= r
                 /\ seg.segments[1].start_row \in RetainedRows
                 /\ \A r \in RetainedRows : r <= seg.segments[1].end_row
                 /\ seg.segments[1].end_row \in RetainedRows

\* C16 (as claimed): the listing has m+1 entries; entry i covers the index
\* range [c_i, c_(i+1)) with c_0 = 0, c_(m+1) = n and c_i the i-th mean as
\* the integer the backend makes of it; it reports the dates of the first
\* and the last index of the range, the empirical mean and std of the raw
\* target over the range, and the intercept and scale of segment i.
C16_ListingCoversSegments ==
    Listed =>
        LET m == Len(cp_means)
            n == IF seg.op = "app_segments" THEN Len(data)
                 ELSE Len(PrepareDataOn(data).y)
            c(i) == IF i = 0 THEN 0
                    ELSE IF i = m + 1 THEN n
                    ELSE IF seg.op = "app_segments" THEN PyInt(cp_means[i])
                    ELSE PyRound(cp_means[i])
        IN /\ Len(seg.segments) = m + 1
           /\ \A i \in 0..m :
                  LET e == seg.segments[i + 1]
                  IN /\ e.start_idx = c(i) /\ e.end_idx = c(i + 1)
                     /\ c(i) < c(i + 1) =>
                            e.start_row = c(i) /\ e.end_row = c(i + 1) - 1
                     /\ e.stats.given
                     /\ e.stats.rows = {r \in 0..(n - 1) : c(i) <= r /\ r < c(i + 1)}
                     /\ e.model_intercept = i /\ e.model_sigma = i

\* The change-point means are whole numbers, as the sorted change points of
\* one draw are.
IntegerMeans == \A i \in 1..Len(cp_means) : cp_means[i].num % cp_means[i].den = 0

\* C24 (as claimed): for whole-numbered change points the index range
\* [start_idx, end_idx) that a listing gives segment i holds exactly the time
\* indices t of the fitted series that the likelihood assigns to segment i,
\* segment_idx[t] = searchsorted(changepoints_sorted, t).
C24_RangesMatchAssignment ==
    (Listed /\ IntegerMeans) =>
        LET cs == [i \in 1..Len(cp_means) |-> PyInt(cp_means[i])]
            n == Len(PrepareDataOn(data).y)
        IN \A t \in 0..(n - 1) :
               \A i \in 0..Len(cp_means) :
                   (/\ seg.segments[i + 1].start_idx <= t
                    /\ t < seg.segments[i + 1].end_idx)
                       <=> SearchSorted(cs, t) = i

\* C26 (as claimed): every listed segment ends on a date that is not before
\* its start date and has a duration that is not negative, and the index
\* ranges of the m+1 segments have lengths that sum to the length of the
\* series the backend lists.
C26_SegmentsWellFormed ==
    Listed =>
        LET m == Len(cp_means)
            n == IF seg.op = "app_segments" THEN Len(data)
                 ELSE Len(PrepareDataOn(data).y)
            lengths == [k \in 1..(m + 1) |->
                           seg.segments[k].end_idx - seg.segments[k].start_idx]
        IN /\ \A k \in 1..(m + 1) :
                  /\ seg.segments[k].start_row <= seg.segments[k].end_row
                  /\ seg.segments[k].duration >= 0
           /\ SumOver(lengths, m + 1) = n

\* The row of the table that is observation c of the series the model was
\* fitted on: the retained row with c retained rows before it.
FittedRow(c) ==
    CHOOSE r \in RetainedRows :
        Cardinality({q \in RetainedRows : q < r}) = c

\* A backend has answered with its change-point listing.
ChangepointsListed ==
    seg.op \in {"app_changepoints", "routes_changepoints"} /\ seg.kind = "ok"

\* C25 (as claimed): the date reported for a change point with time index c,
\* and the start date of a segment that starts at index c, is the date of
\* observation c of the fitted series, also when prepare_data dropped rows.
C25_DatesOfFittedSeries ==
    /\ ChangepointsListed =>
           \A k \in 1..Len(seg.changepoints) :
               seg.changepoints[k].date_row =
                   FittedRow(seg.changepoints[k].time_index)
    /\ Listed =>
           \A k \in 1..Len(seg.segments) :
               seg.segments[k].start_idx < Cardinality(RetainedRows) =>
                   seg.segments[k].start_row =
                       FittedRow(seg.segments[k].start_idx)

\* C30 (as claimed): for the same served fit the listings of app.py and of
\* routes/model_routes.py give every change point the same time index and
\* every segment the same start and end index.
C30_BackendsAgree ==
    /\ ChangepointsListed =>
           \A k \in 1..Len(seg.changepoints) :
               LET i == seg.changepoints[k].id
               IN /\ seg.changepoints[k].time_index =
                         AppChangepoint(data, cp_means, i).time_index
                  /\ seg.changepoints[k].time_index =
                         RoutesChangePoint(data, cp_means, i).time_index
    /\ Listed =>
           \A k \in 1..Len(seg.segments) :
               LET a == AppSegment(data, cp_means, k - 1)
                   r == RoutesSegment(data, Len(PrepareDataOn(data).y),
                                      cp_means, k - 1)
               IN /\ seg.segments[k].start_idx = a.start_idx
                  /\ seg.segments[k].start_idx = r.start_idx
                  /\ seg.segments[k].end_idx = a.end_idx
                  /\ seg.segments[k].end_idx = r.end_idx

(***************************************************************************)
(* Properties of the linear predictor (specification SpecLik).             *)
(***************************************************************************)
\* C17: there is one coefficient vector of length k for all m+1 segments;
\* at every time index the mean is the intercept of the index's segment
\* plus the dot product of the covariate row with that vector and the scale
\* is the sigma of the segment; under any other change points only the
\* intercept and the scale of a time index change, never its event term.
C17_SharedEventCoefficients ==
    lik.op = "likelihood" =>
        LET m == Len(lik_in.changepoints_sorted)
        IN /\ lik.n_coefficients = NumEvents
           /\ lik.n_intercepts = m + 1 /\ lik.n_sigmas = m + 1
           /\ \A t \in 1..lik_in.n :
                  /\ lik.segment_idx[t] \in 0..m
                  /\ lik.mu[t].segment_effect = lik.segment_idx[t]
                  /\ lik.mu[t].event_effect =
                         Dot(lik_in.X_events[t], lik_in.event_coefficients)
                  /\ lik.sigma[t] = lik.segment_idx[t]
           /\ \A c \in SortedChangepoints(m, lik_in.n) :
                  LET other == EventLikelihood(
                                   [lik_in EXCEPT !.changepoints_sorted = c])
                  IN \A t \in 1..lik_in.n :
                         other.mu[t].event_effect = lik.mu[t].event_effect

\* C17 witness: a draw in which two time indices with the same non-zero
\* event term lie in different segments.
C17_Witness ==
    /\ lik.op = "likelihood"
    /\ \E t, u \in 1..lik_in.n :
           /\ lik.segment_idx[t] # lik.segment_idx[u]
           /\ lik.mu[t].event_effect = lik.mu[u].event_effect
           /\ lik.mu[t].event_effect > 0

(***************************************************************************)
(* Properties of the persistence (specification SpecStore).                *)
(***************************************************************************)
\* C14 (as claimed): once save_results has written a mapping, each loader
\* returns a mapping with the same keys, the same WAIC values and the same
\* posterior means.
C14_RoundTrip ==
    (has_saved /\ readback.op \in
         {"load_model_data", "load_data", "load_model_results"}) =>
        /\ ~readback.is_none
        /\ DOMAIN readback.value = DOMAIN saved
        /\ \A k \in DOMAIN saved :
               /\ readback.value[k].waic = saved[k].waic
               /\ readback.value[k].mean = saved[k].mean

(***************************************************************************)
(* Properties of the convergence reporting (specification SpecConv).       *)
(***************************************************************************)
\* C19 (as claimed): when the fits it reads are served, the status and the
\* diagnostics endpoint answer with success, whatever the R-hat values are,
\* and report the largest R-hat, the least effective sample size and a
\* verdict that is true exactly when the largest R-hat is below 1.05.
C19_ConvergenceNotFatal ==
    ((conv_resp.op = "status" /\ conv_served.keys = ModelKeys)
         \/ (conv_resp.op = "diagnostics"
                 /\ "event_model" \in conv_served.keys)) =>
        /\ conv_resp.kind = "ok"
        /\ conv_resp.has_convergence
        /\ conv_resp.convergence.r_hat_max = MaxOver(conv_rhat)
        /\ conv_resp.convergence.effective_sample_size_min = MinOver(conv_ess)
        /\ conv_resp.convergence.is_converged <=>
               (\A i \in 1..NumEvents : conv_rhat[i] < RhatThreshold)

(***************************************************************************)
(* Properties of the backend process (specification SpecSrv).              *)
(***************************************************************************)
\* The entry of mapping d at key k, or "absent".
EntryOf(d, k) == IF k \in DOMAIN d THEN <<"entry", d[k]>> ELSE <<"absent">>

\* C21: a step of run_event_model leaves results['basic_model'] and
\* runner.basic_model as they were, a step of run_basic_model leaves
\* results['event_model'] and runner.event_model as they were, and
\* compare_models and save_results leave the results mapping as it was.
C21_FitsIndependent ==
    [][/\ srv_pc = "run_event_model" =>
              /\ EntryOf(srv_results', "basic_model") =
                     EntryOf(srv_results, "basic_model")
              /\ srv_basic_model' = srv_basic_model
       /\ srv_pc = "run_basic_model" =>
              /\ EntryOf(srv_results', "event_model") =
                     EntryOf(srv_results, "event_model")
              /\ srv_event_model' = srv_event_model
       /\ srv_pc \in {"compare_models", "save_results"} =>
              srv_results' = srv_results]_vars

\* The second request has stored its basic fit next to the event fit of the
\* first, and the first request's event model object is still the runner's.
C21_Witness ==
    /\ srv_run = 2
    /\ srv_pc = "run_event_model"
    /\ ~CompareModelsRaises(srv_results)
    /\ srv_results["basic_model"].trace = 2
    /\ srv_results["event_model"].trace = 1
    /\ srv_event_model.owner = 1

\* C22: the keys of runner.results are among 'basic_model' and
\* 'event_model', every entry holds a trace and the WAIC computed from that
\* trace, and the mapping changes only in a step of run_basic_model or
\* run_event_model that returns, which sets the entry of its own key to the
\* fit of the request; a call that raises changes nothing in the mapping.
C22_ResultsWellFormed ==
    /\ [](/\ DOMAIN srv_results \subseteq ModelKeys
          /\ \A k \in DOMAIN srv_results :
                 /\ DOMAIN srv_results[k] = {"trace", "waic_of"}
                 /\ srv_results[k].waic_of = srv_results[k].trace)
    /\ [][srv_results' # srv_results =>
              /\ srv_pc \in {"run_basic_model", "run_event_model"}
              /\ srv_resp'.kind = "ok"
              /\ LET key == IF srv_pc = "run_basic_model" THEN "basic_model"
                            ELSE "event_model"
                     obj == IF srv_pc = "run_basic_model" THEN srv_basic_model'
                            ELSE srv_event_model'
                 IN /\ srv_results' =
                           SetItem(srv_results, key, FitEntry(srv_run))
                    /\ obj = [owner |-> srv_run, built |-> TRUE,
                              fitted |-> TRUE]]_vars

\* A call of run_event_model has raised in the sampler after the basic fit
\* of the same request was stored.
C22_Witness ==
    /\ srv_resp.op = "run_event_model"
    /\ srv_resp.kind = "error"
    /\ srv_event_model = [owner |-> srv_run, built |-> TRUE, fitted |-> FALSE]
    /\ "basic_model" \in DOMAIN srv_results
    /\ "event_model" \notin DOMAIN srv_results

\* C27 (as claimed): between requests, neither runner.results nor the
\* mapping the query endpoints serve holds a basic fit and an event fit of
\* different run requests.
C27_NoMixedRuns ==
    srv_pc = "idle" =>
        /\ ~CompareModelsRaises(srv_results) =>
               srv_results["basic_model"].trace =
                   srv_results["event_model"].trace
        /\ ~CompareModelsRaises(Served) =>
               Served["basic_model"].trace = Served["event_model"].trace

\* The last answer is that of a query endpoint.
QueryAnswered ==
    srv_resp.op \in {"status", "changepoints", "event-coefficients",
                     "segments", "diagnostics"}

\* C28 (as claimed): once a POST /run was answered success, every query
\* between requests is answered from the fits of the last such run: status
\* reports the models as fitted, the other endpoints answer from its trace.
C28_QueriesSeeLastRun ==
    (srv_pc = "idle" /\ srv_ok_run > 0 /\ QueryAnswered) =>
        /\ srv_resp.kind = "ok"
        /\ srv_resp.models_fitted
        /\ srv_resp.trace = srv_ok_run

\* C29 (as claimed): a query that passes the guard 'event model fitted'
\* ends in a success answer.
C29_GuardedQueriesSucceed ==
    (srv_resp.op \in {"changepoints", "event-coefficients", "segments",
                      "diagnostics"}
         /\ srv_resp.guard) =>
        srv_resp.kind = "ok"

=============================================================================
